---------------------------- MODULE Spec2Model ----------------------------
(***************************************************************************)
(* Model of simple-web-host (src/main.go): the request pipeline of         *)
(* Server.handleRequest (method check, sanitizePath, os.Stat, extension    *)
(* policy, http.ServeFile, deferred logRequest) and the responseRecorder   *)
(* that wraps the outgoing http.ResponseWriter.                            *)
(*                                                                         *)
(* Strings are sequences of one-character strings, so that TrimPrefix,     *)
(* Contains, HasPrefix, filepath.Clean/Join/Abs/Ext and ToLower are        *)
(* computed character by character as the Go library computes them on a    *)
(* Unix build (separator "/", backslash an ordinary character).            *)
(***************************************************************************)
EXTENDS Integers, Sequences, FiniteSets, TLC

(***************************************************************************)
(* Bounds of the model.                                                    *)
(***************************************************************************)
\* longest exhaustively enumerated request path, in characters
MaxLen == 4
\* largest size of a served file, in bytes
MaxSize == 2
\* longest sequence of calls made on a bare responseRecorder
MaxCalls == 3

(***************************************************************************)
(* Strings.                                                                *)
(***************************************************************************)
Slash == "/"
Backslash == "\\"
Dot == "."

\* the characters request paths are enumerated over
Alphabet == {Slash, Backslash, Dot, "m", "d", "M"}

\* strings.HasPrefix(s, prefix)
HasPrefix(s, prefix) ==
    /\ Len(prefix) <= Len(s)
    /\ SubSeq(s, 1, Len(prefix)) = prefix

\* strings.HasSuffix(s, suffix)
HasSuffix(s, suffix) ==
    /\ Len(suffix) <= Len(s)
    /\ SubSeq(s, Len(s) - Len(suffix) + 1, Len(s)) = suffix

\* strings.Contains(s, substr)
Contains(s, substr) ==
    \E i \in 1..(Len(s) - Len(substr) + 1) :
        SubSeq(s, i, i + Len(substr) - 1) = substr

\* strings.TrimPrefix(s, prefix): s without the prefix, once, when it has it
TrimPrefix(s, prefix) ==
    IF HasPrefix(s, prefix) THEN SubSeq(s, Len(prefix) + 1, Len(s)) ELSE s

\* A character of a string is written as itself when it is ASCII and by
\* the name of its code point, "U+0130", when it is not; a byte that is
\* part of no valid UTF-8 encoding is written by its value, "0xFF".  The
\* functions of this section look for ASCII bytes only, which no encoding
\* of another character contains.
\* the bytes that may stand outside a valid encoding
InvalidBytes ==
    { "0x80", "0x81", "0x82", "0x83", "0x84", "0x85", "0x86", "0x87", "0x88",
      "0x89", "0x8A", "0x8B", "0x8C", "0x8D", "0x8E", "0x8F", "0x90", "0x91",
      "0x92", "0x93", "0x94", "0x95", "0x96", "0x97", "0x98", "0x99", "0x9A",
      "0x9B", "0x9C", "0x9D", "0x9E", "0x9F", "0xA0", "0xA1", "0xA2", "0xA3",
      "0xA4", "0xA5", "0xA6", "0xA7", "0xA8", "0xA9", "0xAA", "0xAB", "0xAC",
      "0xAD", "0xAE", "0xAF", "0xB0", "0xB1", "0xB2", "0xB3", "0xB4", "0xB5",
      "0xB6", "0xB7", "0xB8", "0xB9", "0xBA", "0xBB", "0xBC", "0xBD", "0xBE",
      "0xBF", "0xC0", "0xC1", "0xC2", "0xC3", "0xC4", "0xC5", "0xC6", "0xC7",
      "0xC8", "0xC9", "0xCA", "0xCB", "0xCC", "0xCD", "0xCE", "0xCF", "0xD0",
      "0xD1", "0xD2", "0xD3", "0xD4", "0xD5", "0xD6", "0xD7", "0xD8", "0xD9",
      "0xDA", "0xDB", "0xDC", "0xDD", "0xDE", "0xDF", "0xE0", "0xE1", "0xE2",
      "0xE3", "0xE4", "0xE5", "0xE6", "0xE7", "0xE8", "0xE9", "0xEA", "0xEB",
      "0xEC", "0xED", "0xEE", "0xEF", "0xF0", "0xF1", "0xF2", "0xF3", "0xF4",
      "0xF5", "0xF6", "0xF7", "0xF8", "0xF9", "0xFA", "0xFB", "0xFC", "0xFD",
      "0xFE", "0xFF" }

\* unicode.ToLower: every character that has a lower case, with it
CaseTable ==
    << <<"A", "a">>, <<"B", "b">>, <<"C", "c">>, <<"D", "d">>, <<"E", "e">>,
       <<"F", "f">>, <<"G", "g">>, <<"H", "h">>, <<"I", "i">>, <<"J", "j">>,
       <<"K", "k">>, <<"L", "l">>, <<"M", "m">>, <<"N", "n">>, <<"O", "o">>,
       <<"P", "p">>, <<"Q", "q">>, <<"R", "r">>, <<"S", "s">>, <<"T", "t">>,
       <<"U", "u">>, <<"V", "v">>, <<"W", "w">>, <<"X", "x">>, <<"Y", "y">>,
       <<"Z", "z">>, <<"U+00C0", "U+00E0">>, <<"U+00C1", "U+00E1">>,
       <<"U+00C2", "U+00E2">>, <<"U+00C3", "U+00E3">>,
       <<"U+00C4", "U+00E4">>, <<"U+00C5", "U+00E5">>,
       <<"U+00C6", "U+00E6">>, <<"U+00C7", "U+00E7">>,
       <<"U+00C8", "U+00E8">>, <<"U+00C9", "U+00E9">>,
       <<"U+00CA", "U+00EA">>, <<"U+00CB", "U+00EB">>,
       <<"U+00CC", "U+00EC">>, <<"U+00CD", "U+00ED">>,
       <<"U+00CE", "U+00EE">>, <<"U+00CF", "U+00EF">>,
       <<"U+00D0", "U+00F0">>, <<"U+00D1", "U+00F1">>,
       <<"U+00D2", "U+00F2">>, <<"U+00D3", "U+00F3">>,
       <<"U+00D4", "U+00F4">>, <<"U+00D5", "U+00F5">>,
       <<"U+00D6", "U+00F6">>, <<"U+00D8", "U+00F8">>,
       <<"U+00D9", "U+00F9">>, <<"U+00DA", "U+00FA">>,
       <<"U+00DB", "U+00FB">>, <<"U+00DC", "U+00FC">>,
       <<"U+00DD", "U+00FD">>, <<"U+00DE", "U+00FE">>,
       <<"U+0100", "U+0101">>, <<"U+0102", "U+0103">>,
       <<"U+0104", "U+0105">>, <<"U+0106", "U+0107">>,
       <<"U+0108", "U+0109">>, <<"U+010A", "U+010B">>,
       <<"U+010C", "U+010D">>, <<"U+010E", "U+010F">>,
       <<"U+0110", "U+0111">>, <<"U+0112", "U+0113">>,
       <<"U+0114", "U+0115">>, <<"U+0116", "U+0117">>,
       <<"U+0118", "U+0119">>, <<"U+011A", "U+011B">>,
       <<"U+011C", "U+011D">>, <<"U+011E", "U+011F">>,
       <<"U+0120", "U+0121">>, <<"U+0122", "U+0123">>,
       <<"U+0124", "U+0125">>, <<"U+0126", "U+0127">>,
       <<"U+0128", "U+0129">>, <<"U+012A", "U+012B">>,
       <<"U+012C", "U+012D">>, <<"U+012E", "U+012F">>, <<"U+0130", "i">>,
       <<"U+0132", "U+0133">>, <<"U+0134", "U+0135">>,
       <<"U+0136", "U+0137">>, <<"U+0139", "U+013A">>,
       <<"U+013B", "U+013C">>, <<"U+013D", "U+013E">>,
       <<"U+013F", "U+0140">>, <<"U+0141", "U+0142">>,
       <<"U+0143", "U+0144">>, <<"U+0145", "U+0146">>,
       <<"U+0147", "U+0148">>, <<"U+014A", "U+014B">>,
       <<"U+014C", "U+014D">>, <<"U+014E", "U+014F">>,
       <<"U+0150", "U+0151">>, <<"U+0152", "U+0153">>,
       <<"U+0154", "U+0155">>, <<"U+0156", "U+0157">>,
       <<"U+0158", "U+0159">>, <<"U+015A", "U+015B">>,
       <<"U+015C", "U+015D">>, <<"U+015E", "U+015F">>,
       <<"U+0160", "U+0161">>, <<"U+0162", "U+0163">>,
       <<"U+0164", "U+0165">>, <<"U+0166", "U+0167">>,
       <<"U+0168", "U+0169">>, <<"U+016A", "U+016B">>,
       <<"U+016C", "U+016D">>, <<"U+016E", "U+016F">>,
       <<"U+0170", "U+0171">>, <<"U+0172", "U+0173">>,
       <<"U+0174", "U+0175">>, <<"U+0176", "U+0177">>,
       <<"U+0178", "U+00FF">>, <<"U+0179", "U+017A">>,
       <<"U+017B", "U+017C">>, <<"U+017D", "U+017E">>,
       <<"U+0181", "U+0253">>, <<"U+0182", "U+0183">>,
       <<"U+0184", "U+0185">>, <<"U+0186", "U+0254">>,
       <<"U+0187", "U+0188">>, <<"U+0189", "U+0256">>,
       <<"U+018A", "U+0257">>, <<"U+018B", "U+018C">>,
       <<"U+018E", "U+01DD">>, <<"U+018F", "U+0259">>,
       <<"U+0190", "U+025B">>, <<"U+0191", "U+0192">>,
       <<"U+0193", "U+0260">>, <<"U+0194", "U+0263">>,
       <<"U+0196", "U+0269">>, <<"U+0197", "U+0268">>,
       <<"U+0198", "U+0199">>, <<"U+019C", "U+026F">>,
       <<"U+019D", "U+0272">>, <<"U+019F", "U+0275">>,
       <<"U+01A0", "U+01A1">>, <<"U+01A2", "U+01A3">>,
       <<"U+01A4", "U+01A5">>, <<"U+01A6", "U+0280">>,
       <<"U+01A7", "U+01A8">>, <<"U+01A9", "U+0283">>,
       <<"U+01AC", "U+01AD">>, <<"U+01AE", "U+0288">>,
       <<"U+01AF", "U+01B0">>, <<"U+01B1", "U+028A">>,
       <<"U+01B2", "U+028B">>, <<"U+01B3", "U+01B4">>,
       <<"U+01B5", "U+01B6">>, <<"U+01B7", "U+0292">>,
       <<"U+01B8", "U+01B9">>, <<"U+01BC", "U+01BD">>,
       <<"U+01C4", "U+01C6">>, <<"U+01C5", "U+01C6">>,
       <<"U+01C7", "U+01C9">>, <<"U+01C8", "U+01C9">>,
       <<"U+01CA", "U+01CC">>, <<"U+01CB", "U+01CC">>,
       <<"U+01CD", "U+01CE">>, <<"U+01CF", "U+01D0">>,
       <<"U+01D1", "U+01D2">>, <<"U+01D3", "U+01D4">>,
       <<"U+01D5", "U+01D6">>, <<"U+01D7", "U+01D8">>,
       <<"U+01D9", "U+01DA">>, <<"U+01DB", "U+01DC">>,
       <<"U+01DE", "U+01DF">>, <<"U+01E0", "U+01E1">>,
       <<"U+01E2", "U+01E3">>, <<"U+01E4", "U+01E5">>,
       <<"U+01E6", "U+01E7">>, <<"U+01E8", "U+01E9">>,
       <<"U+01EA", "U+01EB">>, <<"U+01EC", "U+01ED">>,
       <<"U+01EE", "U+01EF">>, <<"U+01F1", "U+01F3">>,
       <<"U+01F2", "U+01F3">>, <<"U+01F4", "U+01F5">>,
       <<"U+01F6", "U+0195">>, <<"U+01F7", "U+01BF">>,
       <<"U+01F8", "U+01F9">>, <<"U+01FA", "U+01FB">>,
       <<"U+01FC", "U+01FD">>, <<"U+01FE", "U+01FF">>,
       <<"U+0200", "U+0201">>, <<"U+0202", "U+0203">>,
       <<"U+0204", "U+0205">>, <<"U+0206", "U+0207">>,
       <<"U+0208", "U+0209">>, <<"U+020A", "U+020B">>,
       <<"U+020C", "U+020D">>, <<"U+020E", "U+020F">>,
       <<"U+0210", "U+0211">>, <<"U+0212", "U+0213">>,
       <<"U+0214", "U+0215">>, <<"U+0216", "U+0217">>,
       <<"U+0218", "U+0219">>, <<"U+021A", "U+021B">>,
       <<"U+021C", "U+021D">>, <<"U+021E", "U+021F">>,
       <<"U+0220", "U+019E">>, <<"U+0222", "U+0223">>,
       <<"U+0224", "U+0225">>, <<"U+0226", "U+0227">>,
       <<"U+0228", "U+0229">>, <<"U+022A", "U+022B">>,
       <<"U+022C", "U+022D">>, <<"U+022E", "U+022F">>,
       <<"U+0230", "U+0231">>, <<"U+0232", "U+0233">>,
       <<"U+023A", "U+2C65">>, <<"U+023B", "U+023C">>,
       <<"U+023D", "U+019A">>, <<"U+023E", "U+2C66">>,
       <<"U+0241", "U+0242">>, <<"U+0243", "U+0180">>,
       <<"U+0244", "U+0289">>, <<"U+0245", "U+028C">>,
       <<"U+0246", "U+0247">>, <<"U+0248", "U+0249">>,
       <<"U+024A", "U+024B">>, <<"U+024C", "U+024D">>,
       <<"U+024E", "U+024F">>, <<"U+0370", "U+0371">>,
       <<"U+0372", "U+0373">>, <<"U+0376", "U+0377">>,
       <<"U+037F", "U+03F3">>, <<"U+0386", "U+03AC">>,
       <<"U+0388", "U+03AD">>, <<"U+0389", "U+03AE">>,
       <<"U+038A", "U+03AF">>, <<"U+038C", "U+03CC">>,
       <<"U+038E", "U+03CD">>, <<"U+038F", "U+03CE">>,
       <<"U+0391", "U+03B1">>, <<"U+0392", "U+03B2">>,
       <<"U+0393", "U+03B3">>, <<"U+0394", "U+03B4">>,
       <<"U+0395", "U+03B5">>, <<"U+0396", "U+03B6">>,
       <<"U+0397", "U+03B7">>, <<"U+0398", "U+03B8">>,
       <<"U+0399", "U+03B9">>, <<"U+039A", "U+03BA">>,
       <<"U+039B", "U+03BB">>, <<"U+039C", "U+03BC">>,
       <<"U+039D", "U+03BD">>, <<"U+039E", "U+03BE">>,
       <<"U+039F", "U+03BF">>, <<"U+03A0", "U+03C0">>,
       <<"U+03A1", "U+03C1">>, <<"U+03A3", "U+03C3">>,
       <<"U+03A4", "U+03C4">>, <<"U+03A5", "U+03C5">>,
       <<"U+03A6", "U+03C6">>, <<"U+03A7", "U+03C7">>,
       <<"U+03A8", "U+03C8">>, <<"U+03A9", "U+03C9">>,
       <<"U+03AA", "U+03CA">>, <<"U+03AB", "U+03CB">>,
       <<"U+03CF", "U+03D7">>, <<"U+03D8", "U+03D9">>,
       <<"U+03DA", "U+03DB">>, <<"U+03DC", "U+03DD">>,
       <<"U+03DE", "U+03DF">>, <<"U+03E0", "U+03E1">>,
       <<"U+03E2", "U+03E3">>, <<"U+03E4", "U+03E5">>,
       <<"U+03E6", "U+03E7">>, <<"U+03E8", "U+03E9">>,
       <<"U+03EA", "U+03EB">>, <<"U+03EC", "U+03ED">>,
       <<"U+03EE", "U+03EF">>, <<"U+03F4", "U+03B8">>,
       <<"U+03F7", "U+03F8">>, <<"U+03F9", "U+03F2">>,
       <<"U+03FA", "U+03FB">>, <<"U+03FD", "U+037B">>,
       <<"U+03FE", "U+037C">>, <<"U+03FF", "U+037D">>,
       <<"U+0400", "U+0450">>, <<"U+0401", "U+0451">>,
       <<"U+0402", "U+0452">>, <<"U+0403", "U+0453">>,
       <<"U+0404", "U+0454">>, <<"U+0405", "U+0455">>,
       <<"U+0406", "U+0456">>, <<"U+0407", "U+0457">>,
       <<"U+0408", "U+0458">>, <<"U+0409", "U+0459">>,
       <<"U+040A", "U+045A">>, <<"U+040B", "U+045B">>,
       <<"U+040C", "U+045C">>, <<"U+040D", "U+045D">>,
       <<"U+040E", "U+045E">>, <<"U+040F", "U+045F">>,
       <<"U+0410", "U+0430">>, <<"U+0411", "U+0431">>,
       <<"U+0412", "U+0432">>, <<"U+0413", "U+0433">>,
       <<"U+0414", "U+0434">>, <<"U+0415", "U+0435">>,
       <<"U+0416", "U+0436">>, <<"U+0417", "U+0437">>,
       <<"U+0418", "U+0438">>, <<"U+0419", "U+0439">>,
       <<"U+041A", "U+043A">>, <<"U+041B", "U+043B">>,
       <<"U+041C", "U+043C">>, <<"U+041D", "U+043D">>,
       <<"U+041E", "U+043E">>, <<"U+041F", "U+043F">>,
       <<"U+0420", "U+0440">>, <<"U+0421", "U+0441">>,
       <<"U+0422", "U+0442">>, <<"U+0423", "U+0443">>,
       <<"U+0424", "U+0444">>, <<"U+0425", "U+0445">>,
       <<"U+0426", "U+0446">>, <<"U+0427", "U+0447">>,
       <<"U+0428", "U+0448">>, <<"U+0429", "U+0449">>,
       <<"U+042A", "U+044A">>, <<"U+042B", "U+044B">>,
       <<"U+042C", "U+044C">>, <<"U+042D", "U+044D">>,
       <<"U+042E", "U+044E">>, <<"U+042F", "U+044F">>,
       <<"U+0460", "U+0461">>, <<"U+0462", "U+0463">>,
       <<"U+0464", "U+0465">>, <<"U+0466", "U+0467">>,
       <<"U+0468", "U+0469">>, <<"U+046A", "U+046B">>,
       <<"U+046C", "U+046D">>, <<"U+046E", "U+046F">>,
       <<"U+0470", "U+0471">>, <<"U+0472", "U+0473">>,
       <<"U+0474", "U+0475">>, <<"U+0476", "U+0477">>,
       <<"U+0478", "U+0479">>, <<"U+047A", "U+047B">>,
       <<"U+047C", "U+047D">>, <<"U+047E", "U+047F">>,
       <<"U+0480", "U+0481">>, <<"U+048A", "U+048B">>,
       <<"U+048C", "U+048D">>, <<"U+048E", "U+048F">>,
       <<"U+0490", "U+0491">>, <<"U+0492", "U+0493">>,
       <<"U+0494", "U+0495">>, <<"U+0496", "U+0497">>,
       <<"U+0498", "U+0499">>, <<"U+049A", "U+049B">>,
       <<"U+049C", "U+049D">>, <<"U+049E", "U+049F">>,
       <<"U+04A0", "U+04A1">>, <<"U+04A2", "U+04A3">>,
       <<"U+04A4", "U+04A5">>, <<"U+04A6", "U+04A7">>,
       <<"U+04A8", "U+04A9">>, <<"U+04AA", "U+04AB">>,
       <<"U+04AC", "U+04AD">>, <<"U+04AE", "U+04AF">>,
       <<"U+04B0", "U+04B1">>, <<"U+04B2", "U+04B3">>,
       <<"U+04B4", "U+04B5">>, <<"U+04B6", "U+04B7">>,
       <<"U+04B8", "U+04B9">>, <<"U+04BA", "U+04BB">>,
       <<"U+04BC", "U+04BD">>, <<"U+04BE", "U+04BF">>,
       <<"U+04C0", "U+04CF">>, <<"U+04C1", "U+04C2">>,
       <<"U+04C3", "U+04C4">>, <<"U+04C5", "U+04C6">>,
       <<"U+04C7", "U+04C8">>, <<"U+04C9", "U+04CA">>,
       <<"U+04CB", "U+04CC">>, <<"U+04CD", "U+04CE">>,
       <<"U+04D0", "U+04D1">>, <<"U+04D2", "U+04D3">>,
       <<"U+04D4", "U+04D5">>, <<"U+04D6", "U+04D7">>,
       <<"U+04D8", "U+04D9">>, <<"U+04DA", "U+04DB">>,
       <<"U+04DC", "U+04DD">>, <<"U+04DE", "U+04DF">>,
       <<"U+04E0", "U+04E1">>, <<"U+04E2", "U+04E3">>,
       <<"U+04E4", "U+04E5">>, <<"U+04E6", "U+04E7">>,
       <<"U+04E8", "U+04E9">>, <<"U+04EA", "U+04EB">>,
       <<"U+04EC", "U+04ED">>, <<"U+04EE", "U+04EF">>,
       <<"U+04F0", "U+04F1">>, <<"U+04F2", "U+04F3">>,
       <<"U+04F4", "U+04F5">>, <<"U+04F6", "U+04F7">>,
       <<"U+04F8", "U+04F9">>, <<"U+04FA", "U+04FB">>,
       <<"U+04FC", "U+04FD">>, <<"U+04FE", "U+04FF">>,
       <<"U+0500", "U+0501">>, <<"U+0502", "U+0503">>,
       <<"U+0504", "U+0505">>, <<"U+0506", "U+0507">>,
       <<"U+0508", "U+0509">>, <<"U+050A", "U+050B">>,
       <<"U+050C", "U+050D">>, <<"U+050E", "U+050F">>,
       <<"U+0510", "U+0511">>, <<"U+0512", "U+0513">>,
       <<"U+0514", "U+0515">>, <<"U+0516", "U+0517">>,
       <<"U+0518", "U+0519">>, <<"U+051A", "U+051B">>,
       <<"U+051C", "U+051D">>, <<"U+051E", "U+051F">>,
       <<"U+0520", "U+0521">>, <<"U+0522", "U+0523">>,
       <<"U+0524", "U+0525">>, <<"U+0526", "U+0527">>,
       <<"U+0528", "U+0529">>, <<"U+052A", "U+052B">>,
       <<"U+052C", "U+052D">>, <<"U+052E", "U+052F">>,
       <<"U+0531", "U+0561">>, <<"U+0532", "U+0562">>,
       <<"U+0533", "U+0563">>, <<"U+0534", "U+0564">>,
       <<"U+0535", "U+0565">>, <<"U+0536", "U+0566">>,
       <<"U+0537", "U+0567">>, <<"U+0538", "U+0568">>,
       <<"U+0539", "U+0569">>, <<"U+053A", "U+056A">>,
       <<"U+053B", "U+056B">>, <<"U+053C", "U+056C">>,
       <<"U+053D", "U+056D">>, <<"U+053E", "U+056E">>,
       <<"U+053F", "U+056F">>, <<"U+0540", "U+0570">>,
       <<"U+0541", "U+0571">>, <<"U+0542", "U+0572">>,
       <<"U+0543", "U+0573">>, <<"U+0544", "U+0574">>,
       <<"U+0545", "U+0575">>, <<"U+0546", "U+0576">>,
       <<"U+0547", "U+0577">>, <<"U+0548", "U+0578">>,
       <<"U+0549", "U+0579">>, <<"U+054A", "U+057A">>,
       <<"U+054B", "U+057B">>, <<"U+054C", "U+057C">>,
       <<"U+054D", "U+057D">>, <<"U+054E", "U+057E">>,
       <<"U+054F", "U+057F">>, <<"U+0550", "U+0580">>,
       <<"U+0551", "U+0581">>, <<"U+0552", "U+0582">>,
       <<"U+0553", "U+0583">>, <<"U+0554", "U+0584">>,
       <<"U+0555", "U+0585">>, <<"U+0556", "U+0586">>,
       <<"U+10A0", "U+2D00">>, <<"U+10A1", "U+2D01">>,
       <<"U+10A2", "U+2D02">>, <<"U+10A3", "U+2D03">>,
       <<"U+10A4", "U+2D04">>, <<"U+10A5", "U+2D05">>,
       <<"U+10A6", "U+2D06">>, <<"U+10A7", "U+2D07">>,
       <<"U+10A8", "U+2D08">>, <<"U+10A9", "U+2D09">>,
       <<"U+10AA", "U+2D0A">>, <<"U+10AB", "U+2D0B">>,
       <<"U+10AC", "U+2D0C">>, <<"U+10AD", "U+2D0D">>,
       <<"U+10AE", "U+2D0E">>, <<"U+10AF", "U+2D0F">>,
       <<"U+10B0", "U+2D10">>, <<"U+10B1", "U+2D11">>,
       <<"U+10B2", "U+2D12">>, <<"U+10B3", "U+2D13">>,
       <<"U+10B4", "U+2D14">>, <<"U+10B5", "U+2D15">>,
       <<"U+10B6", "U+2D16">>, <<"U+10B7", "U+2D17">>,
       <<"U+10B8", "U+2D18">>, <<"U+10B9", "U+2D19">>,
       <<"U+10BA", "U+2D1A">>, <<"U+10BB", "U+2D1B">>,
       <<"U+10BC", "U+2D1C">>, <<"U+10BD", "U+2D1D">>,
       <<"U+10BE", "U+2D1E">>, <<"U+10BF", "U+2D1F">>,
       <<"U+10C0", "U+2D20">>, <<"U+10C1", "U+2D21">>,
       <<"U+10C2", "U+2D22">>, <<"U+10C3", "U+2D23">>,
       <<"U+10C4", "U+2D24">>, <<"U+10C5", "U+2D25">>,
       <<"U+10C7", "U+2D27">>, <<"U+10CD", "U+2D2D">>,
       <<"U+13A0", "U+AB70">>, <<"U+13A1", "U+AB71">>,
       <<"U+13A2", "U+AB72">>, <<"U+13A3", "U+AB73">>,
       <<"U+13A4", "U+AB74">>, <<"U+13A5", "U+AB75">>,
       <<"U+13A6", "U+AB76">>, <<"U+13A7", "U+AB77">>,
       <<"U+13A8", "U+AB78">>, <<"U+13A9", "U+AB79">>,
       <<"U+13AA", "U+AB7A">>, <<"U+13AB", "U+AB7B">>,
       <<"U+13AC", "U+AB7C">>, <<"U+13AD", "U+AB7D">>,
       <<"U+13AE", "U+AB7E">>, <<"U+13AF", "U+AB7F">>,
       <<"U+13B0", "U+AB80">>, <<"U+13B1", "U+AB81">>,
       <<"U+13B2", "U+AB82">>, <<"U+13B3", "U+AB83">>,
       <<"U+13B4", "U+AB84">>, <<"U+13B5", "U+AB85">>,
       <<"U+13B6", "U+AB86">>, <<"U+13B7", "U+AB87">>,
       <<"U+13B8", "U+AB88">>, <<"U+13B9", "U+AB89">>,
       <<"U+13BA", "U+AB8A">>, <<"U+13BB", "U+AB8B">>,
       <<"U+13BC", "U+AB8C">>, <<"U+13BD", "U+AB8D">>,
       <<"U+13BE", "U+AB8E">>, <<"U+13BF", "U+AB8F">>,
       <<"U+13C0", "U+AB90">>, <<"U+13C1", "U+AB91">>,
       <<"U+13C2", "U+AB92">>, <<"U+13C3", "U+AB93">>,
       <<"U+13C4", "U+AB94">>, <<"U+13C5", "U+AB95">>,
       <<"U+13C6", "U+AB96">>, <<"U+13C7", "U+AB97">>,
       <<"U+13C8", "U+AB98">>, <<"U+13C9", "U+AB99">>,
       <<"U+13CA", "U+AB9A">>, <<"U+13CB", "U+AB9B">>,
       <<"U+13CC", "U+AB9C">>, <<"U+13CD", "U+AB9D">>,
       <<"U+13CE", "U+AB9E">>, <<"U+13CF", "U+AB9F">>,
       <<"U+13D0", "U+ABA0">>, <<"U+13D1", "U+ABA1">>,
       <<"U+13D2", "U+ABA2">>, <<"U+13D3", "U+ABA3">>,
       <<"U+13D4", "U+ABA4">>, <<"U+13D5", "U+ABA5">>,
       <<"U+13D6", "U+ABA6">>, <<"U+13D7", "U+ABA7">>,
       <<"U+13D8", "U+ABA8">>, <<"U+13D9", "U+ABA9">>,
       <<"U+13DA", "U+ABAA">>, <<"U+13DB", "U+ABAB">>,
       <<"U+13DC", "U+ABAC">>, <<"U+13DD", "U+ABAD">>,
       <<"U+13DE", "U+ABAE">>, <<"U+13DF", "U+ABAF">>,
       <<"U+13E0", "U+ABB0">>, <<"U+13E1", "U+ABB1">>,
       <<"U+13E2", "U+ABB2">>, <<"U+13E3", "U+ABB3">>,
       <<"U+13E4", "U+ABB4">>, <<"U+13E5", "U+ABB5">>,
       <<"U+13E6", "U+ABB6">>, <<"U+13E7", "U+ABB7">>,
       <<"U+13E8", "U+ABB8">>, <<"U+13E9", "U+ABB9">>,
       <<"U+13EA", "U+ABBA">>, <<"U+13EB", "U+ABBB">>,
       <<"U+13EC", "U+ABBC">>, <<"U+13ED", "U+ABBD">>,
       <<"U+13EE", "U+ABBE">>, <<"U+13EF", "U+ABBF">>,
       <<"U+13F0", "U+13F8">>, <<"U+13F1", "U+13F9">>,
       <<"U+13F2", "U+13FA">>, <<"U+13F3", "U+13FB">>,
       <<"U+13F4", "U+13FC">>, <<"U+13F5", "U+13FD">>,
       <<"U+1C90", "U+10D0">>, <<"U+1C91", "U+10D1">>,
       <<"U+1C92", "U+10D2">>, <<"U+1C93", "U+10D3">>,
       <<"U+1C94", "U+10D4">>, <<"U+1C95", "U+10D5">>,
       <<"U+1C96", "U+10D6">>, <<"U+1C97", "U+10D7">>,
       <<"U+1C98", "U+10D8">>, <<"U+1C99", "U+10D9">>,
       <<"U+1C9A", "U+10DA">>, <<"U+1C9B", "U+10DB">>,
       <<"U+1C9C", "U+10DC">>, <<"U+1C9D", "U+10DD">>,
       <<"U+1C9E", "U+10DE">>, <<"U+1C9F", "U+10DF">>,
       <<"U+1CA0", "U+10E0">>, <<"U+1CA1", "U+10E1">>,
       <<"U+1CA2", "U+10E2">>, <<"U+1CA3", "U+10E3">>,
       <<"U+1CA4", "U+10E4">>, <<"U+1CA5", "U+10E5">>,
       <<"U+1CA6", "U+10E6">>, <<"U+1CA7", "U+10E7">>,
       <<"U+1CA8", "U+10E8">>, <<"U+1CA9", "U+10E9">>,
       <<"U+1CAA", "U+10EA">>, <<"U+1CAB", "U+10EB">>,
       <<"U+1CAC", "U+10EC">>, <<"U+1CAD", "U+10ED">>,
       <<"U+1CAE", "U+10EE">>, <<"U+1CAF", "U+10EF">>,
       <<"U+1CB0", "U+10F0">>, <<"U+1CB1", "U+10F1">>,
       <<"U+1CB2", "U+10F2">>, <<"U+1CB3", "U+10F3">>,
       <<"U+1CB4", "U+10F4">>, <<"U+1CB5", "U+10F5">>,
       <<"U+1CB6", "U+10F6">>, <<"U+1CB7", "U+10F7">>,
       <<"U+1CB8", "U+10F8">>, <<"U+1CB9", "U+10F9">>,
       <<"U+1CBA", "U+10FA">>, <<"U+1CBD", "U+10FD">>,
       <<"U+1CBE", "U+10FE">>, <<"U+1CBF", "U+10FF">>,
       <<"U+1E00", "U+1E01">>, <<"U+1E02", "U+1E03">>,
       <<"U+1E04", "U+1E05">>, <<"U+1E06", "U+1E07">>,
       <<"U+1E08", "U+1E09">>, <<"U+1E0A", "U+1E0B">>,
       <<"U+1E0C", "U+1E0D">>, <<"U+1E0E", "U+1E0F">>,
       <<"U+1E10", "U+1E11">>, <<"U+1E12", "U+1E13">>,
       <<"U+1E14", "U+1E15">>, <<"U+1E16", "U+1E17">>,
       <<"U+1E18", "U+1E19">>, <<"U+1E1A", "U+1E1B">>,
       <<"U+1E1C", "U+1E1D">>, <<"U+1E1E", "U+1E1F">>,
       <<"U+1E20", "U+1E21">>, <<"U+1E22", "U+1E23">>,
       <<"U+1E24", "U+1E25">>, <<"U+1E26", "U+1E27">>,
       <<"U+1E28", "U+1E29">>, <<"U+1E2A", "U+1E2B">>,
       <<"U+1E2C", "U+1E2D">>, <<"U+1E2E", "U+1E2F">>,
       <<"U+1E30", "U+1E31">>, <<"U+1E32", "U+1E33">>,
       <<"U+1E34", "U+1E35">>, <<"U+1E36", "U+1E37">>,
       <<"U+1E38", "U+1E39">>, <<"U+1E3A", "U+1E3B">>,
       <<"U+1E3C", "U+1E3D">>, <<"U+1E3E", "U+1E3F">>,
       <<"U+1E40", "U+1E41">>, <<"U+1E42", "U+1E43">>,
       <<"U+1E44", "U+1E45">>, <<"U+1E46", "U+1E47">>,
       <<"U+1E48", "U+1E49">>, <<"U+1E4A", "U+1E4B">>,
       <<"U+1E4C", "U+1E4D">>, <<"U+1E4E", "U+1E4F">>,
       <<"U+1E50", "U+1E51">>, <<"U+1E52", "U+1E53">>,
       <<"U+1E54", "U+1E55">>, <<"U+1E56", "U+1E57">>,
       <<"U+1E58", "U+1E59">>, <<"U+1E5A", "U+1E5B">>,
       <<"U+1E5C", "U+1E5D">>, <<"U+1E5E", "U+1E5F">>,
       <<"U+1E60", "U+1E61">>, <<"U+1E62", "U+1E63">>,
       <<"U+1E64", "U+1E65">>, <<"U+1E66", "U+1E67">>,
       <<"U+1E68", "U+1E69">>, <<"U+1E6A", "U+1E6B">>,
       <<"U+1E6C", "U+1E6D">>, <<"U+1E6E", "U+1E6F">>,
       <<"U+1E70", "U+1E71">>, <<"U+1E72", "U+1E73">>,
       <<"U+1E74", "U+1E75">>, <<"U+1E76", "U+1E77">>,
       <<"U+1E78", "U+1E79">>, <<"U+1E7A", "U+1E7B">>,
       <<"U+1E7C", "U+1E7D">>, <<"U+1E7E", "U+1E7F">>,
       <<"U+1E80", "U+1E81">>, <<"U+1E82", "U+1E83">>,
       <<"U+1E84", "U+1E85">>, <<"U+1E86", "U+1E87">>,
       <<"U+1E88", "U+1E89">>, <<"U+1E8A", "U+1E8B">>,
       <<"U+1E8C", "U+1E8D">>, <<"U+1E8E", "U+1E8F">>,
       <<"U+1E90", "U+1E91">>, <<"U+1E92", "U+1E93">>,
       <<"U+1E94", "U+1E95">>, <<"U+1E9E", "U+00DF">>,
       <<"U+1EA0", "U+1EA1">>, <<"U+1EA2", "U+1EA3">>,
       <<"U+1EA4", "U+1EA5">>, <<"U+1EA6", "U+1EA7">>,
       <<"U+1EA8", "U+1EA9">>, <<"U+1EAA", "U+1EAB">>,
       <<"U+1EAC", "U+1EAD">>, <<"U+1EAE", "U+1EAF">>,
       <<"U+1EB0", "U+1EB1">>, <<"U+1EB2", "U+1EB3">>,
       <<"U+1EB4", "U+1EB5">>, <<"U+1EB6", "U+1EB7">>,
       <<"U+1EB8", "U+1EB9">>, <<"U+1EBA", "U+1EBB">>,
       <<"U+1EBC", "U+1EBD">>, <<"U+1EBE", "U+1EBF">>,
       <<"U+1EC0", "U+1EC1">>, <<"U+1EC2", "U+1EC3">>,
       <<"U+1EC4", "U+1EC5">>, <<"U+1EC6", "U+1EC7">>,
       <<"U+1EC8", "U+1EC9">>, <<"U+1ECA", "U+1ECB">>,
       <<"U+1ECC", "U+1ECD">>, <<"U+1ECE", "U+1ECF">>,
       <<"U+1ED0", "U+1ED1">>, <<"U+1ED2", "U+1ED3">>,
       <<"U+1ED4", "U+1ED5">>, <<"U+1ED6", "U+1ED7">>,
       <<"U+1ED8", "U+1ED9">>, <<"U+1EDA", "U+1EDB">>,
       <<"U+1EDC", "U+1EDD">>, <<"U+1EDE", "U+1EDF">>,
       <<"U+1EE0", "U+1EE1">>, <<"U+1EE2", "U+1EE3">>,
       <<"U+1EE4", "U+1EE5">>, <<"U+1EE6", "U+1EE7">>,
       <<"U+1EE8", "U+1EE9">>, <<"U+1EEA", "U+1EEB">>,
       <<"U+1EEC", "U+1EED">>, <<"U+1EEE", "U+1EEF">>,
       <<"U+1EF0", "U+1EF1">>, <<"U+1EF2", "U+1EF3">>,
       <<"U+1EF4", "U+1EF5">>, <<"U+1EF6", "U+1EF7">>,
       <<"U+1EF8", "U+1EF9">>, <<"U+1EFA", "U+1EFB">>,
       <<"U+1EFC", "U+1EFD">>, <<"U+1EFE", "U+1EFF">>,
       <<"U+1F08", "U+1F00">>, <<"U+1F09", "U+1F01">>,
       <<"U+1F0A", "U+1F02">>, <<"U+1F0B", "U+1F03">>,
       <<"U+1F0C", "U+1F04">>, <<"U+1F0D", "U+1F05">>,
       <<"U+1F0E", "U+1F06">>, <<"U+1F0F", "U+1F07">>,
       <<"U+1F18", "U+1F10">>, <<"U+1F19", "U+1F11">>,
       <<"U+1F1A", "U+1F12">>, <<"U+1F1B", "U+1F13">>,
       <<"U+1F1C", "U+1F14">>, <<"U+1F1D", "U+1F15">>,
       <<"U+1F28", "U+1F20">>, <<"U+1F29", "U+1F21">>,
       <<"U+1F2A", "U+1F22">>, <<"U+1F2B", "U+1F23">>,
       <<"U+1F2C", "U+1F24">>, <<"U+1F2D", "U+1F25">>,
       <<"U+1F2E", "U+1F26">>, <<"U+1F2F", "U+1F27">>,
       <<"U+1F38", "U+1F30">>, <<"U+1F39", "U+1F31">>,
       <<"U+1F3A", "U+1F32">>, <<"U+1F3B", "U+1F33">>,
       <<"U+1F3C", "U+1F34">>, <<"U+1F3D", "U+1F35">>,
       <<"U+1F3E", "U+1F36">>, <<"U+1F3F", "U+1F37">>,
       <<"U+1F48", "U+1F40">>, <<"U+1F49", "U+1F41">>,
       <<"U+1F4A", "U+1F42">>, <<"U+1F4B", "U+1F43">>,
       <<"U+1F4C", "U+1F44">>, <<"U+1F4D", "U+1F45">>,
       <<"U+1F59", "U+1F51">>, <<"U+1F5B", "U+1F53">>,
       <<"U+1F5D", "U+1F55">>, <<"U+1F5F", "U+1F57">>,
       <<"U+1F68", "U+1F60">>, <<"U+1F69", "U+1F61">>,
       <<"U+1F6A", "U+1F62">>, <<"U+1F6B", "U+1F63">>,
       <<"U+1F6C", "U+1F64">>, <<"U+1F6D", "U+1F65">>,
       <<"U+1F6E", "U+1F66">>, <<"U+1F6F", "U+1F67">>,
       <<"U+1F88", "U+1F80">>, <<"U+1F89", "U+1F81">>,
       <<"U+1F8A", "U+1F82">>, <<"U+1F8B", "U+1F83">>,
       <<"U+1F8C", "U+1F84">>, <<"U+1F8D", "U+1F85">>,
       <<"U+1F8E", "U+1F86">>, <<"U+1F8F", "U+1F87">>,
       <<"U+1F98", "U+1F90">>, <<"U+1F99", "U+1F91">>,
       <<"U+1F9A", "U+1F92">>, <<"U+1F9B", "U+1F93">>,
       <<"U+1F9C", "U+1F94">>, <<"U+1F9D", "U+1F95">>,
       <<"U+1F9E", "U+1F96">>, <<"U+1F9F", "U+1F97">>,
       <<"U+1FA8", "U+1FA0">>, <<"U+1FA9", "U+1FA1">>,
       <<"U+1FAA", "U+1FA2">>, <<"U+1FAB", "U+1FA3">>,
       <<"U+1FAC", "U+1FA4">>, <<"U+1FAD", "U+1FA5">>,
       <<"U+1FAE", "U+1FA6">>, <<"U+1FAF", "U+1FA7">>,
       <<"U+1FB8", "U+1FB0">>, <<"U+1FB9", "U+1FB1">>,
       <<"U+1FBA", "U+1F70">>, <<"U+1FBB", "U+1F71">>,
       <<"U+1FBC", "U+1FB3">>, <<"U+1FC8", "U+1F72">>,
       <<"U+1FC9", "U+1F73">>, <<"U+1FCA", "U+1F74">>,
       <<"U+1FCB", "U+1F75">>, <<"U+1FCC", "U+1FC3">>,
       <<"U+1FD8", "U+1FD0">>, <<"U+1FD9", "U+1FD1">>,
       <<"U+1FDA", "U+1F76">>, <<"U+1FDB", "U+1F77">>,
       <<"U+1FE8", "U+1FE0">>, <<"U+1FE9", "U+1FE1">>,
       <<"U+1FEA", "U+1F7A">>, <<"U+1FEB", "U+1F7B">>,
       <<"U+1FEC", "U+1FE5">>, <<"U+1FF8", "U+1F78">>,
       <<"U+1FF9", "U+1F79">>, <<"U+1FFA", "U+1F7C">>,
       <<"U+1FFB", "U+1F7D">>, <<"U+1FFC", "U+1FF3">>,
       <<"U+2126", "U+03C9">>, <<"U+212A", "k">>, <<"U+212B", "U+00E5">>,
       <<"U+2132", "U+214E">>, <<"U+2160", "U+2170">>,
       <<"U+2161", "U+2171">>, <<"U+2162", "U+2172">>,
       <<"U+2163", "U+2173">>, <<"U+2164", "U+2174">>,
       <<"U+2165", "U+2175">>, <<"U+2166", "U+2176">>,
       <<"U+2167", "U+2177">>, <<"U+2168", "U+2178">>,
       <<"U+2169", "U+2179">>, <<"U+216A", "U+217A">>,
       <<"U+216B", "U+217B">>, <<"U+216C", "U+217C">>,
       <<"U+216D", "U+217D">>, <<"U+216E", "U+217E">>,
       <<"U+216F", "U+217F">>, <<"U+2183", "U+2184">>,
       <<"U+24B6", "U+24D0">>, <<"U+24B7", "U+24D1">>,
       <<"U+24B8", "U+24D2">>, <<"U+24B9", "U+24D3">>,
       <<"U+24BA", "U+24D4">>, <<"U+24BB", "U+24D5">>,
       <<"U+24BC", "U+24D6">>, <<"U+24BD", "U+24D7">>,
       <<"U+24BE", "U+24D8">>, <<"U+24BF", "U+24D9">>,
       <<"U+24C0", "U+24DA">>, <<"U+24C1", "U+24DB">>,
       <<"U+24C2", "U+24DC">>, <<"U+24C3", "U+24DD">>,
       <<"U+24C4", "U+24DE">>, <<"U+24C5", "U+24DF">>,
       <<"U+24C6", "U+24E0">>, <<"U+24C7", "U+24E1">>,
       <<"U+24C8", "U+24E2">>, <<"U+24C9", "U+24E3">>,
       <<"U+24CA", "U+24E4">>, <<"U+24CB", "U+24E5">>,
       <<"U+24CC", "U+24E6">>, <<"U+24CD", "U+24E7">>,
       <<"U+24CE", "U+24E8">>, <<"U+24CF", "U+24E9">>,
       <<"U+2C00", "U+2C30">>, <<"U+2C01", "U+2C31">>,
       <<"U+2C02", "U+2C32">>, <<"U+2C03", "U+2C33">>,
       <<"U+2C04", "U+2C34">>, <<"U+2C05", "U+2C35">>,
       <<"U+2C06", "U+2C36">>, <<"U+2C07", "U+2C37">>,
       <<"U+2C08", "U+2C38">>, <<"U+2C09", "U+2C39">>,
       <<"U+2C0A", "U+2C3A">>, <<"U+2C0B", "U+2C3B">>,
       <<"U+2C0C", "U+2C3C">>, <<"U+2C0D", "U+2C3D">>,
       <<"U+2C0E", "U+2C3E">>, <<"U+2C0F", "U+2C3F">>,
       <<"U+2C10", "U+2C40">>, <<"U+2C11", "U+2C41">>,
       <<"U+2C12", "U+2C42">>, <<"U+2C13", "U+2C43">>,
       <<"U+2C14", "U+2C44">>, <<"U+2C15", "U+2C45">>,
       <<"U+2C16", "U+2C46">>, <<"U+2C17", "U+2C47">>,
       <<"U+2C18", "U+2C48">>, <<"U+2C19", "U+2C49">>,
       <<"U+2C1A", "U+2C4A">>, <<"U+2C1B", "U+2C4B">>,
       <<"U+2C1C", "U+2C4C">>, <<"U+2C1D", "U+2C4D">>,
       <<"U+2C1E", "U+2C4E">>, <<"U+2C1F", "U+2C4F">>,
       <<"U+2C20", "U+2C50">>, <<"U+2C21", "U+2C51">>,
       <<"U+2C22", "U+2C52">>, <<"U+2C23", "U+2C53">>,
       <<"U+2C24", "U+2C54">>, <<"U+2C25", "U+2C55">>,
       <<"U+2C26", "U+2C56">>, <<"U+2C27", "U+2C57">>,
       <<"U+2C28", "U+2C58">>, <<"U+2C29", "U+2C59">>,
       <<"U+2C2A", "U+2C5A">>, <<"U+2C2B", "U+2C5B">>,
       <<"U+2C2C", "U+2C5C">>, <<"U+2C2D", "U+2C5D">>,
       <<"U+2C2E", "U+2C5E">>, <<"U+2C2F", "U+2C5F">>,
       <<"U+2C60", "U+2C61">>, <<"U+2C62", "U+026B">>,
       <<"U+2C63", "U+1D7D">>, <<"U+2C64", "U+027D">>,
       <<"U+2C67", "U+2C68">>, <<"U+2C69", "U+2C6A">>,
       <<"U+2C6B", "U+2C6C">>, <<"U+2C6D", "U+0251">>,
       <<"U+2C6E", "U+0271">>, <<"U+2C6F", "U+0250">>,
       <<"U+2C70", "U+0252">>, <<"U+2C72", "U+2C73">>,
       <<"U+2C75", "U+2C76">>, <<"U+2C7E", "U+023F">>,
       <<"U+2C7F", "U+0240">>, <<"U+2C80", "U+2C81">>,
       <<"U+2C82", "U+2C83">>, <<"U+2C84", "U+2C85">>,
       <<"U+2C86", "U+2C87">>, <<"U+2C88", "U+2C89">>,
       <<"U+2C8A", "U+2C8B">>, <<"U+2C8C", "U+2C8D">>,
       <<"U+2C8E", "U+2C8F">>, <<"U+2C90", "U+2C91">>,
       <<"U+2C92", "U+2C93">>, <<"U+2C94", "U+2C95">>,
       <<"U+2C96", "U+2C97">>, <<"U+2C98", "U+2C99">>,
       <<"U+2C9A", "U+2C9B">>, <<"U+2C9C", "U+2C9D">>,
       <<"U+2C9E", "U+2C9F">>, <<"U+2CA0", "U+2CA1">>,
       <<"U+2CA2", "U+2CA3">>, <<"U+2CA4", "U+2CA5">>,
       <<"U+2CA6", "U+2CA7">>, <<"U+2CA8", "U+2CA9">>,
       <<"U+2CAA", "U+2CAB">>, <<"U+2CAC", "U+2CAD">>,
       <<"U+2CAE", "U+2CAF">>, <<"U+2CB0", "U+2CB1">>,
       <<"U+2CB2", "U+2CB3">>, <<"U+2CB4", "U+2CB5">>,
       <<"U+2CB6", "U+2CB7">>, <<"U+2CB8", "U+2CB9">>,
       <<"U+2CBA", "U+2CBB">>, <<"U+2CBC", "U+2CBD">>,
       <<"U+2CBE", "U+2CBF">>, <<"U+2CC0", "U+2CC1">>,
       <<"U+2CC2", "U+2CC3">>, <<"U+2CC4", "U+2CC5">>,
       <<"U+2CC6", "U+2CC7">>, <<"U+2CC8", "U+2CC9">>,
       <<"U+2CCA", "U+2CCB">>, <<"U+2CCC", "U+2CCD">>,
       <<"U+2CCE", "U+2CCF">>, <<"U+2CD0", "U+2CD1">>,
       <<"U+2CD2", "U+2CD3">>, <<"U+2CD4", "U+2CD5">>,
       <<"U+2CD6", "U+2CD7">>, <<"U+2CD8", "U+2CD9">>,
       <<"U+2CDA", "U+2CDB">>, <<"U+2CDC", "U+2CDD">>,
       <<"U+2CDE", "U+2CDF">>, <<"U+2CE0", "U+2CE1">>,
       <<"U+2CE2", "U+2CE3">>, <<"U+2CEB", "U+2CEC">>,
       <<"U+2CED", "U+2CEE">>, <<"U+2CF2", "U+2CF3">>,
       <<"U+A640", "U+A641">>, <<"U+A642", "U+A643">>,
       <<"U+A644", "U+A645">>, <<"U+A646", "U+A647">>,
       <<"U+A648", "U+A649">>, <<"U+A64A", "U+A64B">>,
       <<"U+A64C", "U+A64D">>, <<"U+A64E", "U+A64F">>,
       <<"U+A650", "U+A651">>, <<"U+A652", "U+A653">>,
       <<"U+A654", "U+A655">>, <<"U+A656", "U+A657">>,
       <<"U+A658", "U+A659">>, <<"U+A65A", "U+A65B">>,
       <<"U+A65C", "U+A65D">>, <<"U+A65E", "U+A65F">>,
       <<"U+A660", "U+A661">>, <<"U+A662", "U+A663">>,
       <<"U+A664", "U+A665">>, <<"U+A666", "U+A667">>,
       <<"U+A668", "U+A669">>, <<"U+A66A", "U+A66B">>,
       <<"U+A66C", "U+A66D">>, <<"U+A680", "U+A681">>,
       <<"U+A682", "U+A683">>, <<"U+A684", "U+A685">>,
       <<"U+A686", "U+A687">>, <<"U+A688", "U+A689">>,
       <<"U+A68A", "U+A68B">>, <<"U+A68C", "U+A68D">>,
       <<"U+A68E", "U+A68F">>, <<"U+A690", "U+A691">>,
       <<"U+A692", "U+A693">>, <<"U+A694", "U+A695">>,
       <<"U+A696", "U+A697">>, <<"U+A698", "U+A699">>,
       <<"U+A69A", "U+A69B">>, <<"U+A722", "U+A723">>,
       <<"U+A724", "U+A725">>, <<"U+A726", "U+A727">>,
       <<"U+A728", "U+A729">>, <<"U+A72A", "U+A72B">>,
       <<"U+A72C", "U+A72D">>, <<"U+A72E", "U+A72F">>,
       <<"U+A732", "U+A733">>, <<"U+A734", "U+A735">>,
       <<"U+A736", "U+A737">>, <<"U+A738", "U+A739">>,
       <<"U+A73A", "U+A73B">>, <<"U+A73C", "U+A73D">>,
       <<"U+A73E", "U+A73F">>, <<"U+A740", "U+A741">>,
       <<"U+A742", "U+A743">>, <<"U+A744", "U+A745">>,
       <<"U+A746", "U+A747">>, <<"U+A748", "U+A749">>,
       <<"U+A74A", "U+A74B">>, <<"U+A74C", "U+A74D">>,
       <<"U+A74E", "U+A74F">>, <<"U+A750", "U+A751">>,
       <<"U+A752", "U+A753">>, <<"U+A754", "U+A755">>,
       <<"U+A756", "U+A757">>, <<"U+A758", "U+A759">>,
       <<"U+A75A", "U+A75B">>, <<"U+A75C", "U+A75D">>,
       <<"U+A75E", "U+A75F">>, <<"U+A760", "U+A761">>,
       <<"U+A762", "U+A763">>, <<"U+A764", "U+A765">>,
       <<"U+A766", "U+A767">>, <<"U+A768", "U+A769">>,
       <<"U+A76A", "U+A76B">>, <<"U+A76C", "U+A76D">>,
       <<"U+A76E", "U+A76F">>, <<"U+A779", "U+A77A">>,
       <<"U+A77B", "U+A77C">>, <<"U+A77D", "U+1D79">>,
       <<"U+A77E", "U+A77F">>, <<"U+A780", "U+A781">>,
       <<"U+A782", "U+A783">>, <<"U+A784", "U+A785">>,
       <<"U+A786", "U+A787">>, <<"U+A78B", "U+A78C">>,
       <<"U+A78D", "U+0265">>, <<"U+A790", "U+A791">>,
       <<"U+A792", "U+A793">>, <<"U+A796", "U+A797">>,
       <<"U+A798", "U+A799">>, <<"U+A79A", "U+A79B">>,
       <<"U+A79C", "U+A79D">>, <<"U+A79E", "U+A79F">>,
       <<"U+A7A0", "U+A7A1">>, <<"U+A7A2", "U+A7A3">>,
       <<"U+A7A4", "U+A7A5">>, <<"U+A7A6", "U+A7A7">>,
       <<"U+A7A8", "U+A7A9">>, <<"U+A7AA", "U+0266">>,
       <<"U+A7AB", "U+025C">>, <<"U+A7AC", "U+0261">>,
       <<"U+A7AD", "U+026C">>, <<"U+A7AE", "U+026A">>,
       <<"U+A7B0", "U+029E">>, <<"U+A7B1", "U+0287">>,
       <<"U+A7B2", "U+029D">>, <<"U+A7B3", "U+AB53">>,
       <<"U+A7B4", "U+A7B5">>, <<"U+A7B6", "U+A7B7">>,
       <<"U+A7B8", "U+A7B9">>, <<"U+A7BA", "U+A7BB">>,
       <<"U+A7BC", "U+A7BD">>, <<"U+A7BE", "U+A7BF">>,
       <<"U+A7C0", "U+A7C1">>, <<"U+A7C2", "U+A7C3">>,
       <<"U+A7C4", "U+A794">>, <<"U+A7C5", "U+0282">>,
       <<"U+A7C6", "U+1D8E">>, <<"U+A7C7", "U+A7C8">>,
       <<"U+A7C9", "U+A7CA">>, <<"U+A7D0", "U+A7D1">>,
       <<"U+A7D6", "U+A7D7">>, <<"U+A7D8", "U+A7D9">>,
       <<"U+A7F5", "U+A7F6">>, <<"U+FF21", "U+FF41">>,
       <<"U+FF22", "U+FF42">>, <<"U+FF23", "U+FF43">>,
       <<"U+FF24", "U+FF44">>, <<"U+FF25", "U+FF45">>,
       <<"U+FF26", "U+FF46">>, <<"U+FF27", "U+FF47">>,
       <<"U+FF28", "U+FF48">>, <<"U+FF29", "U+FF49">>,
       <<"U+FF2A", "U+FF4A">>, <<"U+FF2B", "U+FF4B">>,
       <<"U+FF2C", "U+FF4C">>, <<"U+FF2D", "U+FF4D">>,
       <<"U+FF2E", "U+FF4E">>, <<"U+FF2F", "U+FF4F">>,
       <<"U+FF30", "U+FF50">>, <<"U+FF31", "U+FF51">>,
       <<"U+FF32", "U+FF52">>, <<"U+FF33", "U+FF53">>,
       <<"U+FF34", "U+FF54">>, <<"U+FF35", "U+FF55">>,
       <<"U+FF36", "U+FF56">>, <<"U+FF37", "U+FF57">>,
       <<"U+FF38", "U+FF58">>, <<"U+FF39", "U+FF59">>,
       <<"U+FF3A", "U+FF5A">>, <<"U+10400", "U+10428">>,
       <<"U+10401", "U+10429">>, <<"U+10402", "U+1042A">>,
       <<"U+10403", "U+1042B">>, <<"U+10404", "U+1042C">>,
       <<"U+10405", "U+1042D">>, <<"U+10406", "U+1042E">>,
       <<"U+10407", "U+1042F">>, <<"U+10408", "U+10430">>,
       <<"U+10409", "U+10431">>, <<"U+1040A", "U+10432">>,
       <<"U+1040B", "U+10433">>, <<"U+1040C", "U+10434">>,
       <<"U+1040D", "U+10435">>, <<"U+1040E", "U+10436">>,
       <<"U+1040F", "U+10437">>, <<"U+10410", "U+10438">>,
       <<"U+10411", "U+10439">>, <<"U+10412", "U+1043A">>,
       <<"U+10413", "U+1043B">>, <<"U+10414", "U+1043C">>,
       <<"U+10415", "U+1043D">>, <<"U+10416", "U+1043E">>,
       <<"U+10417", "U+1043F">>, <<"U+10418", "U+10440">>,
       <<"U+10419", "U+10441">>, <<"U+1041A", "U+10442">>,
       <<"U+1041B", "U+10443">>, <<"U+1041C", "U+10444">>,
       <<"U+1041D", "U+10445">>, <<"U+1041E", "U+10446">>,
       <<"U+1041F", "U+10447">>, <<"U+10420", "U+10448">>,
       <<"U+10421", "U+10449">>, <<"U+10422", "U+1044A">>,
       <<"U+10423", "U+1044B">>, <<"U+10424", "U+1044C">>,
       <<"U+10425", "U+1044D">>, <<"U+10426", "U+1044E">>,
       <<"U+10427", "U+1044F">>, <<"U+104B0", "U+104D8">>,
       <<"U+104B1", "U+104D9">>, <<"U+104B2", "U+104DA">>,
       <<"U+104B3", "U+104DB">>, <<"U+104B4", "U+104DC">>,
       <<"U+104B5", "U+104DD">>, <<"U+104B6", "U+104DE">>,
       <<"U+104B7", "U+104DF">>, <<"U+104B8", "U+104E0">>,
       <<"U+104B9", "U+104E1">>, <<"U+104BA", "U+104E2">>,
       <<"U+104BB", "U+104E3">>, <<"U+104BC", "U+104E4">>,
       <<"U+104BD", "U+104E5">>, <<"U+104BE", "U+104E6">>,
       <<"U+104BF", "U+104E7">>, <<"U+104C0", "U+104E8">>,
       <<"U+104C1", "U+104E9">>, <<"U+104C2", "U+104EA">>,
       <<"U+104C3", "U+104EB">>, <<"U+104C4", "U+104EC">>,
       <<"U+104C5", "U+104ED">>, <<"U+104C6", "U+104EE">>,
       <<"U+104C7", "U+104EF">>, <<"U+104C8", "U+104F0">>,
       <<"U+104C9", "U+104F1">>, <<"U+104CA", "U+104F2">>,
       <<"U+104CB", "U+104F3">>, <<"U+104CC", "U+104F4">>,
       <<"U+104CD", "U+104F5">>, <<"U+104CE", "U+104F6">>,
       <<"U+104CF", "U+104F7">>, <<"U+104D0", "U+104F8">>,
       <<"U+104D1", "U+104F9">>, <<"U+104D2", "U+104FA">>,
       <<"U+104D3", "U+104FB">>, <<"U+10570", "U+10597">>,
       <<"U+10571", "U+10598">>, <<"U+10572", "U+10599">>,
       <<"U+10573", "U+1059A">>, <<"U+10574", "U+1059B">>,
       <<"U+10575", "U+1059C">>, <<"U+10576", "U+1059D">>,
       <<"U+10577", "U+1059E">>, <<"U+10578", "U+1059F">>,
       <<"U+10579", "U+105A0">>, <<"U+1057A", "U+105A1">>,
       <<"U+1057C", "U+105A3">>, <<"U+1057D", "U+105A4">>,
       <<"U+1057E", "U+105A5">>, <<"U+1057F", "U+105A6">>,
       <<"U+10580", "U+105A7">>, <<"U+10581", "U+105A8">>,
       <<"U+10582", "U+105A9">>, <<"U+10583", "U+105AA">>,
       <<"U+10584", "U+105AB">>, <<"U+10585", "U+105AC">>,
       <<"U+10586", "U+105AD">>, <<"U+10587", "U+105AE">>,
       <<"U+10588", "U+105AF">>, <<"U+10589", "U+105B0">>,
       <<"U+1058A", "U+105B1">>, <<"U+1058C", "U+105B3">>,
       <<"U+1058D", "U+105B4">>, <<"U+1058E", "U+105B5">>,
       <<"U+1058F", "U+105B6">>, <<"U+10590", "U+105B7">>,
       <<"U+10591", "U+105B8">>, <<"U+10592", "U+105B9">>,
       <<"U+10594", "U+105BB">>, <<"U+10595", "U+105BC">>,
       <<"U+10C80", "U+10CC0">>, <<"U+10C81", "U+10CC1">>,
       <<"U+10C82", "U+10CC2">>, <<"U+10C83", "U+10CC3">>,
       <<"U+10C84", "U+10CC4">>, <<"U+10C85", "U+10CC5">>,
       <<"U+10C86", "U+10CC6">>, <<"U+10C87", "U+10CC7">>,
       <<"U+10C88", "U+10CC8">>, <<"U+10C89", "U+10CC9">>,
       <<"U+10C8A", "U+10CCA">>, <<"U+10C8B", "U+10CCB">>,
       <<"U+10C8C", "U+10CCC">>, <<"U+10C8D", "U+10CCD">>,
       <<"U+10C8E", "U+10CCE">>, <<"U+10C8F", "U+10CCF">>,
       <<"U+10C90", "U+10CD0">>, <<"U+10C91", "U+10CD1">>,
       <<"U+10C92", "U+10CD2">>, <<"U+10C93", "U+10CD3">>,
       <<"U+10C94", "U+10CD4">>, <<"U+10C95", "U+10CD5">>,
       <<"U+10C96", "U+10CD6">>, <<"U+10C97", "U+10CD7">>,
       <<"U+10C98", "U+10CD8">>, <<"U+10C99", "U+10CD9">>,
       <<"U+10C9A", "U+10CDA">>, <<"U+10C9B", "U+10CDB">>,
       <<"U+10C9C", "U+10CDC">>, <<"U+10C9D", "U+10CDD">>,
       <<"U+10C9E", "U+10CDE">>, <<"U+10C9F", "U+10CDF">>,
       <<"U+10CA0", "U+10CE0">>, <<"U+10CA1", "U+10CE1">>,
       <<"U+10CA2", "U+10CE2">>, <<"U+10CA3", "U+10CE3">>,
       <<"U+10CA4", "U+10CE4">>, <<"U+10CA5", "U+10CE5">>,
       <<"U+10CA6", "U+10CE6">>, <<"U+10CA7", "U+10CE7">>,
       <<"U+10CA8", "U+10CE8">>, <<"U+10CA9", "U+10CE9">>,
       <<"U+10CAA", "U+10CEA">>, <<"U+10CAB", "U+10CEB">>,
       <<"U+10CAC", "U+10CEC">>, <<"U+10CAD", "U+10CED">>,
       <<"U+10CAE", "U+10CEE">>, <<"U+10CAF", "U+10CEF">>,
       <<"U+10CB0", "U+10CF0">>, <<"U+10CB1", "U+10CF1">>,
       <<"U+10CB2", "U+10CF2">>, <<"U+118A0", "U+118C0">>,
       <<"U+118A1", "U+118C1">>, <<"U+118A2", "U+118C2">>,
       <<"U+118A3", "U+118C3">>, <<"U+118A4", "U+118C4">>,
       <<"U+118A5", "U+118C5">>, <<"U+118A6", "U+118C6">>,
       <<"U+118A7", "U+118C7">>, <<"U+118A8", "U+118C8">>,
       <<"U+118A9", "U+118C9">>, <<"U+118AA", "U+118CA">>,
       <<"U+118AB", "U+118CB">>, <<"U+118AC", "U+118CC">>,
       <<"U+118AD", "U+118CD">>, <<"U+118AE", "U+118CE">>,
       <<"U+118AF", "U+118CF">>, <<"U+118B0", "U+118D0">>,
       <<"U+118B1", "U+118D1">>, <<"U+118B2", "U+118D2">>,
       <<"U+118B3", "U+118D3">>, <<"U+118B4", "U+118D4">>,
       <<"U+118B5", "U+118D5">>, <<"U+118B6", "U+118D6">>,
       <<"U+118B7", "U+118D7">>, <<"U+118B8", "U+118D8">>,
       <<"U+118B9", "U+118D9">>, <<"U+118BA", "U+118DA">>,
       <<"U+118BB", "U+118DB">>, <<"U+118BC", "U+118DC">>,
       <<"U+118BD", "U+118DD">>, <<"U+118BE", "U+118DE">>,
       <<"U+118BF", "U+118DF">>, <<"U+16E40", "U+16E60">>,
       <<"U+16E41", "U+16E61">>, <<"U+16E42", "U+16E62">>,
       <<"U+16E43", "U+16E63">>, <<"U+16E44", "U+16E64">>,
       <<"U+16E45", "U+16E65">>, <<"U+16E46", "U+16E66">>,
       <<"U+16E47", "U+16E67">>, <<"U+16E48", "U+16E68">>,
       <<"U+16E49", "U+16E69">>, <<"U+16E4A", "U+16E6A">>,
       <<"U+16E4B", "U+16E6B">>, <<"U+16E4C", "U+16E6C">>,
       <<"U+16E4D", "U+16E6D">>, <<"U+16E4E", "U+16E6E">>,
       <<"U+16E4F", "U+16E6F">>, <<"U+16E50", "U+16E70">>,
       <<"U+16E51", "U+16E71">>, <<"U+16E52", "U+16E72">>,
       <<"U+16E53", "U+16E73">>, <<"U+16E54", "U+16E74">>,
       <<"U+16E55", "U+16E75">>, <<"U+16E56", "U+16E76">>,
       <<"U+16E57", "U+16E77">>, <<"U+16E58", "U+16E78">>,
       <<"U+16E59", "U+16E79">>, <<"U+16E5A", "U+16E7A">>,
       <<"U+16E5B", "U+16E7B">>, <<"U+16E5C", "U+16E7C">>,
       <<"U+16E5D", "U+16E7D">>, <<"U+16E5E", "U+16E7E">>,
       <<"U+16E5F", "U+16E7F">>, <<"U+1E900", "U+1E922">>,
       <<"U+1E901", "U+1E923">>, <<"U+1E902", "U+1E924">>,
       <<"U+1E903", "U+1E925">>, <<"U+1E904", "U+1E926">>,
       <<"U+1E905", "U+1E927">>, <<"U+1E906", "U+1E928">>,
       <<"U+1E907", "U+1E929">>, <<"U+1E908", "U+1E92A">>,
       <<"U+1E909", "U+1E92B">>, <<"U+1E90A", "U+1E92C">>,
       <<"U+1E90B", "U+1E92D">>, <<"U+1E90C", "U+1E92E">>,
       <<"U+1E90D", "U+1E92F">>, <<"U+1E90E", "U+1E930">>,
       <<"U+1E90F", "U+1E931">>, <<"U+1E910", "U+1E932">>,
       <<"U+1E911", "U+1E933">>, <<"U+1E912", "U+1E934">>,
       <<"U+1E913", "U+1E935">>, <<"U+1E914", "U+1E936">>,
       <<"U+1E915", "U+1E937">>, <<"U+1E916", "U+1E938">>,
       <<"U+1E917", "U+1E939">>, <<"U+1E918", "U+1E93A">>,
       <<"U+1E919", "U+1E93B">>, <<"U+1E91A", "U+1E93C">>,
       <<"U+1E91B", "U+1E93D">>, <<"U+1E91C", "U+1E93E">>,
       <<"U+1E91D", "U+1E93F">>, <<"U+1E91E", "U+1E940">>,
       <<"U+1E91F", "U+1E941">>, <<"U+1E920", "U+1E942">>,
       <<"U+1E921", "U+1E943">> >>

\* unicode.ToLower on the characters it changes
LowerOf ==
    [c \in {CaseTable[i][1] : i \in DOMAIN CaseTable} |->
        CaseTable[CHOOSE i \in DOMAIN CaseTable : CaseTable[i][1] = c][2]]

\* lower-casing of one character by strings.ToLower: unicode.ToLower of a
\* character; for a byte that is not part of one, utf8.RuneError (U+FFFD),
\* which strings.Map writes in its place
LowerChar(c) ==
    IF c \in InvalidBytes THEN "U+FFFD"
    ELSE IF c \in DOMAIN LowerOf THEN LowerOf[c]
    ELSE c

\* strings.ToLower(s)
ToLower(s) == IF s = <<>> THEN <<>> ELSE [i \in 1..Len(s) |-> LowerChar(s[i])]

(***************************************************************************)
(* path/filepath on Unix.                                                  *)
(***************************************************************************)
\* the elements of a path between its separators (empty elements included)
RECURSIVE SplitPath(_)
SplitPath(p) ==
    IF \A i \in 1..Len(p) : p[i] # Slash
    THEN <<p>>
    ELSE LET k == CHOOSE i \in 1..Len(p) :
                      /\ p[i] = Slash
                      /\ \A j \in 1..(i - 1) : p[j] # Slash
         IN <<SubSeq(p, 1, k - 1)>> \o SplitPath(SubSeq(p, k + 1, Len(p)))

\* elements joined by the separator
RECURSIVE JoinElems(_)
JoinElems(es) ==
    IF es = <<>> THEN <<>>
    ELSE IF Len(es) = 1 THEN es[1]
    ELSE es[1] \o <<Slash>> \o JoinElems(Tail(es))

\* filepath.Clean's pass over the elements: "" and "." are dropped, ".."
\* removes the element before it, is dropped at the root of a rooted path
\* and is kept at the front of a relative one
RECURSIVE CleanElems(_, _, _)
CleanElems(es, out, rooted) ==
    IF es = <<>> THEN out
    ELSE LET e == Head(es)
             rest == Tail(es)
         IN IF e = <<>> \/ e = <<Dot>>
            THEN CleanElems(rest, out, rooted)
            ELSE IF e = <<Dot, Dot>>
            THEN IF out # <<>> /\ out[Len(out)] # <<Dot, Dot>>
                 THEN CleanElems(rest, SubSeq(out, 1, Len(out) - 1), rooted)
                 ELSE IF rooted
                 THEN CleanElems(rest, out, rooted)
                 ELSE CleanElems(rest, Append(out, e), rooted)
            ELSE CleanElems(rest, Append(out, e), rooted)

\* filepath.IsAbs(p)
IsAbs(p) == HasPrefix(p, <<Slash>>)

\* filepath.Clean(p)
Clean(p) ==
    IF p = <<>> THEN <<Dot>>
    ELSE LET rooted == IsAbs(p)
             body == JoinElems(CleanElems(SplitPath(p), <<>>, rooted))
         IN IF rooted THEN <<Slash>> \o body
            ELSE IF body = <<>> THEN <<Dot>>
            ELSE body

\* filepath.Join(a, b): empty elements are ignored, the result is Cleaned
Join(a, b) ==
    IF a = <<>> /\ b = <<>> THEN <<>>
    ELSE IF a = <<>> THEN Clean(b)
    ELSE IF b = <<>> THEN Clean(a)
    ELSE Clean(a \o <<Slash>> \o b)

\* the working directory of the process
Cwd == <<Slash, "c">>

\* filepath.Abs(p) when it returns no error
Abs(p) == IF IsAbs(p) THEN Clean(p) ELSE Join(Cwd, p)

\* filepath.Abs(p) returns an error: the path is relative and os.Getwd fails
AbsFails(p, getwdOk) == ~IsAbs(p) /\ ~getwdOk

\* filepath.Ext(p): the suffix from the last dot of the last element
Ext(p) ==
    LET dots == {i \in 1..Len(p) :
                    /\ p[i] = Dot
                    /\ \A j \in i..Len(p) : p[j] # Slash}
    IN IF dots = {} THEN <<>>
       ELSE LET k == CHOOSE i \in dots : \A j \in dots : j <= i
            IN SubSeq(p, k, Len(p))

(***************************************************************************)
(* Program data.                                                           *)
(***************************************************************************)
\* var allowedExts
allowedExts ==
    { <<Dot, "h", "t", "m", "l">>, <<Dot, "c", "s", "s">>, <<Dot, "j", "s">>,
      <<Dot, "p", "n", "g">>, <<Dot, "j", "p", "g">>,
      <<Dot, "j", "p", "e", "g">>, <<Dot, "g", "i", "f">>,
      <<Dot, "s", "v", "g">>, <<Dot, "w", "e", "b", "p">>,
      <<Dot, "i", "c", "o">>, <<Dot, "j", "s", "o", "n">>,
      <<Dot, "t", "x", "t">>, <<Dot, "m", "d">> }

\* var blockedExts
blockedExts == { <<Dot, "l", "o", "g">> }

\* http.StatusOK and the other status codes the program sends
StatusOK == 200
StatusMovedPermanently == 301
StatusForbidden == 403
StatusNotFound == 404
StatusMethodNotAllowed == 405
StatusInternalServerError == 500

\* the status codes net/http treats in a way of their own, and those of
\* http.ServeFile
StatusContinue == 100
StatusSwitchingProtocols == 101
StatusEarlyHints == 103
StatusNoContent == 204
StatusPartialContent == 206
StatusNotModified == 304
StatusBadRequest == 400
StatusPreconditionFailed == 412
StatusRequestedRangeNotSatisfiable == 416

\* values of Server.wwwRoot (WWW_ROOT): absolute, with a trailing separator,
\* and relative to the working directory
Roots == { <<Slash, "w">>, <<Slash, "w", Slash>>, <<"w">> }

\* request methods: the two the handler accepts and one it does not
Methods == {"GET", "HEAD", "POST"}

\* request paths named in the documentation, the upper-case variants, and
\* names with a character outside ASCII whose lower case is an ASCII
\* letter (U+0130, capital I with dot above), with another upper-case
\* character outside ASCII (U+00C9) and with a byte that is no character
IndexHtml == <<Slash, "i", "n", "d", "e", "x", Dot, "h", "t", "m", "l">>
ReportHtml == <<Slash, "r", "e", "p", "o", "r", "t", Dot, "h", "t", "m", "l">>
AccessLog == <<Slash, "a", "c", "c", "e", "s", "s", Dot, "l", "o", "g">>
SamplePaths ==
    { IndexHtml, ReportHtml, AccessLog,
      <<Slash, Dot, Dot, Slash, "e", "t", "c", Slash, "p", "w">>,
      <<Slash, "s", "u", "b", Slash, "f", Dot, "h", "t", "m", "l">>,
      <<Slash, "m", Dot, "p", "n", "g">>,
      <<Slash, "a", Dot, "P", "N", "G">>,
      <<Slash, "m", Dot, "M", "D">>,
      <<Slash, "m", Dot, "L", "O", "G">>,
      <<Slash, "m", Dot, "l", "o", "g">>,
      <<Slash, "m", Dot, "e", "x", "e">>,
      <<Slash, "m", Dot, Dot, "m", "d">>,
      <<Slash, "a", Dot, "g", "U+0130", "f">>,
      <<Slash, "a", Dot, "U+0130", "C", "O">>,
      <<Slash, "U+00C9", Dot, "l", "o", "g">>,
      <<Slash, "a", Dot, "U+00C9">>,
      <<Slash, "a", Dot, "m", "d", "0xFF">> }

\* every string over Alphabet of at most MaxLen characters, and the samples
Paths == UNION {[1..n -> Alphabet] : n \in 0..MaxLen} \cup SamplePaths

(***************************************************************************)
(* Server.sanitizePath.  The result is the pair Go returns: the path ("" on*)
(* an error) and the error ("nil" when there is none).                     *)
(***************************************************************************)
NoError == "nil"

\* the final safety check of sanitizePath: absPath is absWwwRoot or below it
WithinRoot(absPath, absWwwRoot) ==
    \/ HasPrefix(absPath, absWwwRoot \o <<Slash>>)
    \/ absPath = absWwwRoot

\* HasSeparator with the test for a backslash left out
HasSeparatorSlashOnly(p) == Contains(p, <<Slash>>)

\* strings.Contains(p, "/") || strings.Contains(p, "\\")
HasSeparator(p) == Contains(p, <<Slash>>) \/ Contains(p, <<Backslash>>)

\* HasTraversal looking for a path element ".." instead of the substring
HasTraversalElement(p) == \E i \in 1..Len(SplitPath(p)) : SplitPath(p)[i] = <<Dot, Dot>>

\* strings.Contains(p, "..")
HasTraversal(p) == Contains(p, <<Dot, Dot>>)

\* sanitizePath reduced to its first step and the join: no test of the
\* remainder or of the result
sanitizePathJoinOnly(root, path, getwd) ==
    LET p == TrimPrefix(path, <<Slash>>)
    IN IF p = <<>> \/ p = <<Dot>>
       THEN [path |-> <<>>, err |-> "directory access not allowed"]
       ELSE [path |-> Join(root, Clean(p)), err |-> NoError]

\* sanitizePath whose first test rejects the empty remainder only, not "."
sanitizePathDotAllowed(root, path, getwd) ==
    LET p == TrimPrefix(path, <<Slash>>)
        clean == Clean(p)
        fullPath == Join(root, clean)
    IN IF p = <<>>
       THEN [path |-> <<>>, err |-> "directory access not allowed"]
       ELSE IF HasSeparator(p)
       THEN [path |-> <<>>, err |-> "subdirectories not allowed"]
       ELSE IF HasTraversal(p)
       THEN [path |-> <<>>, err |-> "directory traversal detected"]
       ELSE IF HasTraversal(clean)
       THEN [path |-> <<>>, err |-> "directory traversal detected after clean"]
       ELSE IF AbsFails(root, getwd[1])
       THEN [path |-> <<>>, err |-> "failed to get absolute www root"]
       ELSE IF AbsFails(fullPath, getwd[2])
       THEN [path |-> <<>>, err |-> "failed to get absolute path"]
       ELSE IF ~WithinRoot(Abs(fullPath), Abs(root))
       THEN [path |-> <<>>, err |-> "path escapes www root"]
       ELSE [path |-> fullPath, err |-> NoError]

\* getwd: whether the os.Getwd of the first and of the second filepath.Abs
\* succeeds
sanitizePath(root, path, getwd) ==
    LET p == TrimPrefix(path, <<Slash>>)
        clean == Clean(p)
        fullPath == Join(root, clean)
        absWwwRoot == Abs(root)
        absPath == Abs(fullPath)
    IN IF p = <<>> \/ p = <<Dot>>
       THEN [path |-> <<>>, err |-> "directory access not allowed"]
       ELSE IF HasSeparator(p)
       THEN [path |-> <<>>, err |-> "subdirectories not allowed"]
       ELSE IF HasTraversal(p)
       THEN [path |-> <<>>, err |-> "directory traversal detected"]
       ELSE IF HasTraversal(clean)
       THEN [path |-> <<>>, err |-> "directory traversal detected after clean"]
       ELSE IF AbsFails(root, getwd[1])
       THEN [path |-> <<>>, err |-> "failed to get absolute www root"]
       ELSE IF AbsFails(fullPath, getwd[2])
       THEN [path |-> <<>>, err |-> "failed to get absolute path"]
       ELSE IF ~WithinRoot(absPath, absWwwRoot)
       THEN [path |-> <<>>, err |-> "path escapes www root"]
       ELSE [path |-> fullPath, err |-> NoError]

(***************************************************************************)
(* State.                                                                  *)
(***************************************************************************)
VARIABLES
    wwwRoot,    \* Server.wwwRoot
    method,     \* r.Method
    path,       \* r.URL.Path
    pc,         \* the position of the request in handleRequest
    cleanPath,  \* the path sanitizePath returned
    err,        \* the error sanitizePath returned ("unset" before the call)
    info,       \* what os.Stat found: [kind, size] (kind "unset" before)
    opened,     \* what http.ServeFile met: the open, f.Stat, the headers
    rr,         \* the responseRecorder: statusCode, bytesWritten, wroteHeader
    w,          \* the wrapped http.ResponseWriter: what goes to the client
    calls,      \* the calls made on the responseRecorder so far
    steps,      \* the steps of handleRequest taken so far
    logCalls,   \* the entries handed to logRequest
    logFile,    \* the entries appended to the bucket file
    diag,       \* the diagnostics logRequest printed with log.Printf
    location,   \* s.location: the zone main loaded or its fixed fallback
    now,        \* the clock: the instant time.Now() returns
    logDir,     \* the logs directory: name -> [isDir, data]
    task,       \* the logging of each concurrent request: its position,
                \* the timestamp of its entry, its file name, its descriptor
    sweep,      \* cleanupOldLogs: its position, the entries still to visit,
                \* its cutoff, and what the sweep before it did
    mainpc,     \* main: "cleanup" until the startup sweep has returned
    removed,    \* every os.Remove that succeeded: the name and the instant
    output      \* what the sweeper and the loggers printed with log.Printf

\* the variables of one request's pipeline
pipeVars == <<wwwRoot, method, path, pc, cleanPath, err, info, opened, rr, w,
              calls, steps, logCalls, logFile, diag>>

\* the variables of the clock, the logs directory, the loggers and the sweeper
logVars == <<location, now, logDir, task, sweep, mainpc, removed, output>>

vars == <<wwwRoot, method, path, pc, cleanPath, err, info, opened, rr, w,
          calls, steps, logCalls, logFile, diag,
          location, now, logDir, task, sweep, mainpc, removed, output>>

Unset == "unset"
NoInfo == [kind |-> Unset, size |-> 0]

(***************************************************************************)
(* The wrapped http.ResponseWriter (net/http's response), as the recorder  *)
(* drives it at main.go:58 and main.go:66.  WriteHeader panics on a code   *)
(* outside 100..999; a 1xx code other than 101 is sent at once as an       *)
(* informational header and leaves the status of the reply open; the      *)
(* first other code fixes the status line, and a WriteHeader after it is   *)
(* superfluous and ignored.  A Write before the status is fixed fixes it   *)
(* at 200.  Write sends nothing and returns 0 when the status allows no    *)
(* body; the body of a reply to HEAD is not sent, though Write reports it  *)
(* written.  When the handler returns with the status still open, 200 is   *)
(* sent.                                                                   *)
(***************************************************************************)
\* checkWriteHeaderCode(code) does not panic
ValidCode(code) == code >= 100 /\ code <= 999

\* the codes response.WriteHeader sends as informational headers
Informational(code) ==
    code >= 100 /\ code <= 199 /\ code # StatusSwitchingProtocols

\* bodyAllowedForStatus(status)
bodyAllowedForStatus(status) ==
    /\ ~(status >= 100 /\ status <= 199)
    /\ status # StatusNoContent
    /\ status # StatusNotModified

\* ResponseWriter.WriteHeader(code)
ResponseWriteHeader(rw, code) ==
    LET seen == [rw EXCEPT !.headerCalls = Append(@, code)]
    IN IF rw.wroteHeader THEN seen
       ELSE IF ~ValidCode(code) THEN [seen EXCEPT !.panicked = TRUE]
       ELSE IF Informational(code)
       THEN [seen EXCEPT !.informational = Append(@, code)]
       ELSE [seen EXCEPT !.wroteHeader = TRUE, !.status = code]

\* the writer once a Write, or response.finishRequest when the handler
\* has returned, has fixed at 200 the status that was still open
ImplicitHeader(rw) ==
    IF rw.wroteHeader THEN rw
    ELSE [rw EXCEPT !.wroteHeader = TRUE, !.status = StatusOK]

\* the n that ResponseWriter.Write(p) returns, for len(p) = n
ResponseWritten(rw, n) ==
    IF bodyAllowedForStatus(ImplicitHeader(rw).status) THEN n ELSE 0

\* ResponseWriter.Write(p) with len(p) = n
ResponseWrite(rw, n) ==
    [ImplicitHeader(rw) EXCEPT
        !.body = IF rw.head THEN @ ELSE @ + ResponseWritten(rw, n)]

\* a ResponseWriter nothing has been written to
NewResponseWriter(isHead) ==
    [wroteHeader |-> FALSE, status |-> 0, body |-> 0, head |-> isHead,
     headerCalls |-> <<>>, informational |-> <<>>, panicked |-> FALSE]

(***************************************************************************)
(* responseRecorder.  A connection c is the recorder, the writer it wraps  *)
(* and the calls made on the recorder.                                     *)
(***************************************************************************)
\* &responseRecorder{ResponseWriter: w, statusCode: http.StatusOK}
NewRecorder == [statusCode |-> StatusOK, bytesWritten |-> 0, wroteHeader |-> FALSE]

\* the body of (rr *responseRecorder) WriteHeader (lines 54-60)
WriteHeader(c, code) ==
    IF ~c.rr.wroteHeader
    THEN [c EXCEPT !.rr.statusCode = code,
                   !.rr.wroteHeader = TRUE,
                   !.w = ResponseWriteHeader(@, code)]
    ELSE c

\* the body of (rr *responseRecorder) Write, for a p of n bytes
Write(c, n) ==
    LET c1 == IF ~c.rr.wroteHeader THEN WriteHeader(c, StatusOK) ELSE c
    IN [c1 EXCEPT !.w = ResponseWrite(@, n),
                  !.rr.bytesWritten = @ + ResponseWritten(c1.w, n)]

\* a call made on the recorder from outside, noted in the history
CallWriteHeader(c, code) ==
    [WriteHeader(c, code) EXCEPT !.calls = Append(c.calls, [op |-> "WriteHeader", arg |-> code])]

CallWrite(c, n) ==
    [Write(c, n) EXCEPT !.calls = Append(c.calls, [op |-> "Write", arg |-> n])]

\* the length of the body http.Error sends: the message and a newline
ErrorBody(msg) ==
    CASE msg = "Method Not Allowed" -> 18 + 1
      [] msg = "Forbidden" -> 9 + 1
      [] msg = "Not Found" -> 9 + 1
      [] msg = "Internal Server Error" -> 21 + 1
      [] msg = "403 Forbidden" -> 13 + 1
      [] msg = "404 page not found" -> 18 + 1
      [] msg = "500 Internal Server Error" -> 25 + 1
      [] msg = "invalid URL path" -> 16 + 1
      [] msg = "invalid range" -> 13 + 1
      [] msg = "invalid range: failed to overlap" -> 32 + 1

\* http.Error(wrapped, msg, code)
httpError(c, msg, code) == CallWrite(CallWriteHeader(c, code), ErrorBody(msg))

Conn == [rr |-> rr, w |-> w, calls |-> calls]

\* the recorder, the writer and the history become those of connection c
SetConn(c) ==
    /\ rr' = c.rr
    /\ w' = c.w
    /\ calls' = c.calls

(***************************************************************************)
(* Server.handleRequest, one action per step.  Every return of the body    *)
(* moves the request to "returned", where the deferred function runs.      *)
(***************************************************************************)
\* MethodAllowed letting POST through as well
MethodAllowedWithPost(m) == m = "GET" \/ m = "HEAD" \/ m = "POST"

\* r.Method != http.MethodGet && r.Method != http.MethodHead, negated
MethodAllowed(m) == m = "GET" \/ m = "HEAD"

\* IsDir that never reports a directory
IsDirNever(i) == FALSE

\* info.IsDir()
IsDir(i) == i.kind = "dir"

\* strings.ToLower(filepath.Ext(cleanPath))
ExtensionOf(p) == ToLower(Ext(p))

\* ExtAdmitted without the allowlist test: whatever is not blocked passes
ExtAdmittedUnlessBlocked(ext, allowed, blocked) == ext \notin blocked

\* ExtAdmitted with the blocklist read as a second allowlist
ExtAdmittedBlockedToo(ext, allowed, blocked) == ext \in blocked \/ ext \in allowed

\* the two extension tests, in the order of the code: blocked first, then
\* not allowed; TRUE when neither rejects
ExtAdmitted(ext, allowed, blocked) ==
    IF ext \in blocked THEN FALSE
    ELSE IF ext \notin allowed THEN FALSE
    ELSE TRUE

\* the buffer io.Copy takes the file through, in bytes
CopyBuffer == 32 * 1024

\* the sizes of files: the small ones and one that does not fit the buffer
FileSizes == 0..MaxSize \cup {CopyBuffer + 1}

\* what os.Stat(cleanPath) may find: the served root is an existing
\* directory, any other name may be anything
StatResults(root, p) ==
    IF Abs(p) = Abs(root)
    THEN {[kind |-> "dir", size |-> 0]}
    ELSE {[kind |-> "file", size |-> n] : n \in FileSizes}
         \cup {[kind |-> k, size |-> 0] : k \in {"dir", "absent", "error"}}

Return(c, step) ==
    /\ SetConn(c)
    /\ steps' = Append(steps, step)
    /\ pc' = "returned"

Continue(next, step) ==
    /\ steps' = Append(steps, step)
    /\ pc' = next
    /\ UNCHANGED <<rr, w, calls>>

\* MethodCheck whose 405 branch returns before the deferred function is
\* registered, so that nothing is logged for it
MethodCheckBeforeDefer ==
    /\ UNCHANGED logVars
    /\ pc = "received"
    /\ IF ~MethodAllowed(method)
       THEN /\ SetConn(httpError(Conn, "Method Not Allowed", StatusMethodNotAllowed))
            /\ steps' = Append(steps, "method")
            /\ pc' = "done"
       ELSE Continue("methodChecked", "method")
    /\ UNCHANGED <<wwwRoot, method, path, cleanPath, err, info, opened,
                   logCalls, logFile, diag>>

\* lines 146-150
MethodCheck ==
    /\ UNCHANGED logVars
    /\ pc = "received"
    /\ IF ~MethodAllowed(method)
       THEN Return(httpError(Conn, "Method Not Allowed", StatusMethodNotAllowed),
                   "method")
       ELSE Continue("methodChecked", "method")
    /\ UNCHANGED <<wwwRoot, method, path, cleanPath, err, info, opened,
                   logCalls, logFile, diag>>

\* PathValidate answering a request for the directory itself with 404
\* instead of the 403 of the other rejections
PathValidateByReason ==
    /\ UNCHANGED logVars
    /\ pc = "methodChecked"
    /\ \E getwd \in [1..2 -> BOOLEAN] :
       LET res == sanitizePath(wwwRoot, path, getwd)
       IN /\ cleanPath' = res.path
          /\ err' = res.err
          /\ IF res.err = "directory access not allowed"
             THEN Return(httpError(Conn, "Not Found", StatusNotFound), "sanitize")
             ELSE IF res.err # NoError
             THEN Return(httpError(Conn, "Forbidden", StatusForbidden), "sanitize")
             ELSE Continue("pathValidated", "sanitize")
    /\ UNCHANGED <<wwwRoot, method, path, info, opened, logCalls, logFile, diag>>

\* lines 152-157
PathValidate ==
    /\ UNCHANGED logVars
    /\ pc = "methodChecked"
    /\ \E getwd \in [1..2 -> BOOLEAN] :
       LET res == sanitizePath(wwwRoot, path, getwd)
       IN /\ cleanPath' = res.path
          /\ err' = res.err
          /\ IF res.err # NoError
             THEN Return(httpError(Conn, "Forbidden", StatusForbidden), "sanitize")
             ELSE Continue("pathValidated", "sanitize")
    /\ UNCHANGED <<wwwRoot, method, path, info, opened, logCalls, logFile, diag>>

\* lines 159-168
Stat ==
    /\ UNCHANGED logVars
    /\ pc = "pathValidated"
    /\ \E found \in StatResults(wwwRoot, cleanPath) :
          /\ info' = found
          /\ IF found.kind = "absent"
             THEN Return(httpError(Conn, "Not Found", StatusNotFound), "stat")
             ELSE IF found.kind = "error"
             THEN Return(httpError(Conn, "Internal Server Error",
                                   StatusInternalServerError), "stat")
             ELSE Continue("statd", "stat")
    /\ UNCHANGED <<wwwRoot, method, path, cleanPath, err, opened, logCalls,
                   logFile, diag>>

\* lines 170-173
DirCheck ==
    /\ UNCHANGED logVars
    /\ pc = "statd"
    /\ IF IsDir(info)
       THEN Return(httpError(Conn, "Forbidden", StatusForbidden), "isdir")
       ELSE Continue("notDir", "isdir")
    /\ UNCHANGED <<wwwRoot, method, path, cleanPath, err, info, opened,
                   logCalls, logFile, diag>>

\* ExtensionCheck that goes on to os.Stat: the extension tested first
ExtensionCheckFirst ==
    /\ UNCHANGED logVars
    /\ pc = "notDir"
    /\ IF ~ExtAdmitted(ExtensionOf(cleanPath), allowedExts, blockedExts)
       THEN Return(httpError(Conn, "Forbidden", StatusForbidden), "ext")
       ELSE Continue("pathValidated", "ext")
    /\ UNCHANGED <<wwwRoot, method, path, cleanPath, err, info, opened,
                   logCalls, logFile, diag>>

\* lines 175-184
ExtensionCheck ==
    /\ UNCHANGED logVars
    /\ pc = "notDir"
    /\ IF ~ExtAdmitted(ExtensionOf(cleanPath), allowedExts, blockedExts)
       THEN Return(httpError(Conn, "Forbidden", StatusForbidden), "ext")
       ELSE Continue("extChecked", "ext")
    /\ UNCHANGED <<wwwRoot, method, path, cleanPath, err, info, opened,
                   logCalls, logFile, diag>>

\* whether http.ServeFile answers before opening anything: a URL path
\* ending in /index.html is redirected to ./
RedirectsIndex(urlPath) == HasSuffix(urlPath, IndexHtml)

\* containsDotDot(v): ".." is an element of v between separators of
\* either kind
containsDotDot(v) ==
    \E i \in 1..(Len(v) - 1) :
        /\ v[i] = Dot /\ v[i + 1] = Dot
        /\ i = 1 \/ v[i - 1] \in {Slash, Backslash}
        /\ i + 1 = Len(v) \/ v[i + 2] \in {Slash, Backslash}

\* the errors a system call of http.ServeFile may return, as toHTTPError
\* tells them apart: the file is not there, permission is denied, any other
SysErrors == {"not exist", "permission", "other"}

\* parseRange for a request without a Range header, or whose If-Range
\* drops it
NoRanges == [err |-> "nil", list |-> <<>>]

\* a range parseRange returns for content of this size: it ends within
\* the content, and is empty only as the suffix of length 0; the ranges
\* are taken at the ends of the content and next to them
RangesOf(size) ==
    LET offsets == {n \in {0, 1, size - 1, size} : n >= 0 /\ n <= size}
    IN {ra \in [start : offsets, length : offsets] :
           /\ ra.start + ra.length <= size
           /\ ra.length >= 1 \/ ra.start = size}

\* what parseRange(rangeReq, size) may return: no range, a header that does
\* not parse, ranges that all begin after the content, one range or two
ParseResults(size) ==
    {NoRanges, [err |-> "invalid range", list |-> <<>>],
     [err |-> "no overlap", list |-> <<>>]}
    \cup {[err |-> "nil", list |-> <<ra>>] : ra \in RangesOf(size)}
    \cup {[err |-> "nil", list |-> <<ra, rb>>] :
            ra \in RangesOf(size), rb \in RangesOf(size)}

\* the lengths of the content types given to the parts of a multipart
\* reply: those of image/png and of text/html; charset=utf-8
ContentTypes == {9, 24}

\* http.ServeFile before it has opened anything
NotOpened == [open |-> "none", info |-> NoInfo, pre |-> "none",
              ranges |-> NoRanges, ctype |-> 0]

\* what http.ServeFile met up to the open or the f.Stat
Met(open, found) == [NotOpened EXCEPT !.open = open, !.info = found]

\* what serveContent met for the file f.Stat found: checkPreconditions
\* makes a 304 or a 412 of the conditional headers of the request
\* (If-Match, If-Unmodified-Since, If-None-Match, If-Modified-Since), or
\* the request goes on to parseRange
ContentResults(found) ==
    {[Met("ok", found) EXCEPT !.pre = p] :
        p \in {"not modified", "precondition failed"}}
    \cup {[Met("ok", found) EXCEPT !.ranges = parsed] :
            parsed \in {x \in ParseResults(found.size) : Len(x.list) <= 1}}
    \cup {[Met("ok", found) EXCEPT !.ranges = parsed, !.ctype = t] :
            parsed \in {x \in ParseResults(found.size) : Len(x.list) > 1},
            t \in ContentTypes}

\* how http.ServeFile may go: the open fails; or it succeeds and f.Stat
\* fails, or finds what the name holds by then, a directory or a regular
\* file of any size, whatever os.Stat found at line 160; for a file, what
\* the headers of the request make of it
OpenResults ==
    {Met(e, NoInfo) : e \in SysErrors}
    \cup {Met("ok", [kind |-> e, size |-> 0]) : e \in SysErrors}
    \cup {Met("ok", [kind |-> "dir", size |-> 0])}
    \cup UNION {ContentResults([kind |-> "file", size |-> n]) : n \in FileSizes}

\* toHTTPError(err) handed to http.Error
ErrorReply(c, e) ==
    IF e = "not exist"
    THEN httpError(c, "404 page not found", StatusNotFound)
    ELSE IF e = "permission"
    THEN httpError(c, "403 Forbidden", StatusForbidden)
    ELSE httpError(c, "500 Internal Server Error", StatusInternalServerError)

\* sumRangesSize(ranges)
RECURSIVE sumRangesSize(_)
sumRangesSize(ranges) ==
    IF ranges = <<>> THEN 0
    ELSE Head(ranges).length + sumRangesSize(Tail(ranges))

\* the lengths of the Write calls io.CopyN makes for n bytes of a file:
\* buffers of CopyBuffer bytes and the rest
RECURSIVE Chunks(_)
Chunks(n) ==
    IF n <= 0 THEN <<>>
    ELSE IF n <= CopyBuffer THEN <<n>>
    ELSE <<CopyBuffer>> \o Chunks(n - CopyBuffer)

\* the number of characters of n in decimal
RECURSIVE DecLen(_)
DecLen(n) ==
    IF n < 0 THEN 1 + DecLen(-n)
    ELSE IF n < 10 THEN 1
    ELSE 1 + DecLen(n \div 10)

\* the length of the boundary multipart.NewWriter draws
BoundaryLen == 60

\* the lengths of the Write calls of a multipart/byteranges body: for each
\* range what multipart's CreatePart writes (the boundary line, after a
\* line end unless the part is the first, the Content-Range and
\* Content-Type lines, an empty line) and its bytes, then the closing
\* boundary line
RECURSIVE MultipartWrites(_, _, _, _)
MultipartWrites(ranges, first, size, ctype) ==
    IF ranges = <<>> THEN <<2 + 2 + BoundaryLen + 2 + 2>>
    ELSE LET ra == Head(ranges)
             header == (IF first THEN 0 ELSE 2) + 2 + BoundaryLen + 2
                       + 15 + 6 + DecLen(ra.start) + 1
                            + DecLen(ra.start + ra.length - 1) + 1
                            + DecLen(size) + 2
                       + 14 + ctype + 2
                       + 2
         IN <<header>> \o Chunks(ra.length)
               \o MultipartWrites(Tail(ranges), FALSE, size, ctype)

\* one Write on the recorder for each length
RECURSIVE CallWrites(_, _)
CallWrites(c, lengths) ==
    IF lengths = <<>> THEN c
    ELSE CallWrites(CallWrite(c, Head(lengths)), Tail(lengths))

\* serveContent for the regular file f.Stat found: 304 or 412 when the
\* conditions of the request say so; 416 for a Range header that does not
\* parse or lies outside a file that is not empty; status 206 and the
\* bytes of one range, or several ranges as a multipart body; otherwise,
\* and when the ranges add up to more than the file, status 200 and the
\* file.  A reply to HEAD has the status alone.
serveContent(c, m, o) ==
    IF o.pre = "not modified"
    THEN CallWriteHeader(c, StatusNotModified)
    ELSE IF o.pre = "precondition failed"
    THEN CallWriteHeader(c, StatusPreconditionFailed)
    ELSE IF o.ranges.err = "invalid range"
    THEN httpError(c, "invalid range", StatusRequestedRangeNotSatisfiable)
    ELSE IF o.ranges.err = "no overlap" /\ o.info.size # 0
    THEN httpError(c, "invalid range: failed to overlap",
                   StatusRequestedRangeNotSatisfiable)
    ELSE LET size == o.info.size
             ranges == IF sumRangesSize(o.ranges.list) > size THEN <<>>
                       ELSE o.ranges.list
             code == IF ranges = <<>> THEN StatusOK ELSE StatusPartialContent
             lengths == IF ranges = <<>> THEN Chunks(size)
                        ELSE IF Len(ranges) = 1 THEN Chunks(ranges[1].length)
                        ELSE MultipartWrites(ranges, TRUE, size, o.ctype)
         IN IF m = "HEAD" THEN CallWriteHeader(c, code)
            ELSE CallWrites(CallWriteHeader(c, code), lengths)

\* http.ServeFile(wrapped, r, cleanPath), for the URL paths handleRequest
\* hands over, none of which ends in a separator: 400 for a URL path with
\* a ".." element, the index.html redirect, the error of toHTTPError when
\* the file cannot be opened or f.Stat fails, a redirect to name/ when
\* f.Stat finds a directory, and otherwise serveContent
ServeFileReply(c, m, urlPath, o) ==
    IF containsDotDot(urlPath)
    THEN httpError(c, "invalid URL path", StatusBadRequest)
    ELSE IF RedirectsIndex(urlPath)
    THEN CallWriteHeader(c, StatusMovedPermanently)
    ELSE IF o.open # "ok"
    THEN ErrorReply(c, o.open)
    ELSE IF o.info.kind \in SysErrors
    THEN ErrorReply(c, o.info.kind)
    ELSE IF o.info.kind = "dir"
    THEN CallWriteHeader(c, StatusMovedPermanently)
    ELSE serveContent(c, m, o)

\* lines 186-187
Serve ==
    /\ UNCHANGED logVars
    /\ pc = "extChecked"
    /\ \E o \in IF RedirectsIndex(path) THEN {NotOpened} ELSE OpenResults :
          /\ opened' = o
          /\ Return(ServeFileReply(Conn, method, path, o), "serve")
    /\ UNCHANGED <<wwwRoot, method, path, cleanPath, err, info, logCalls,
                   logFile, diag>>

\* the LogEntry the deferred function builds (lines 135-142), without its
\* timestamp and duration
Entry == [method |-> method, path |-> path, status |-> rr.statusCode,
          bytes |-> rr.bytesWritten]

\* Server.logRequest(entry): the entry is appended to the bucket file
\* unless the file cannot be opened or the encoder fails
logRequest(entry, failure) ==
    /\ logCalls' = Append(logCalls, entry)
    /\ logFile' = IF failure = "none" THEN Append(logFile, entry) ELSE logFile
    /\ diag' = IF failure = "none" THEN diag ELSE Append(diag, failure)

\* how logRequest may fail: os.OpenFile (line 240), encoder.Encode (line 248)
LogFailures == {"none", "Failed to open log file", "Failed to encode log entry"}

\* DeferredLog that reports a failed append to the client
DeferredLogReportsFailure ==
    /\ UNCHANGED logVars
    /\ pc = "returned"
    /\ \E failure \in LogFailures :
          /\ logRequest(Entry, failure)
          /\ IF failure = "none"
             THEN UNCHANGED <<rr, w, calls>>
             ELSE SetConn(httpError(Conn, "Internal Server Error",
                                    StatusInternalServerError))
    /\ pc' = "done"
    /\ steps' = Append(steps, "log")
    /\ UNCHANGED <<wwwRoot, method, path, cleanPath, err, info, opened>>

\* lines 132-144: the deferred function, run when the body has returned
DeferredLog ==
    /\ UNCHANGED logVars
    /\ pc = "returned"
    /\ \E failure \in LogFailures : logRequest(Entry, failure)
    /\ pc' = "done"
    /\ steps' = Append(steps, "log")
    /\ UNCHANGED <<wwwRoot, method, path, cleanPath, err, info, opened, rr, w,
                   calls>>

(***************************************************************************)
(* Time.  An instant is a whole number of clock ticks since the Unix       *)
(* epoch; s.location is the zone of main.go:85, as the zone database       *)
(* gives it, or the fixed zone of main.go:89.                              *)
(* Format and ParseInLocation are those of package time for the layouts    *)
(* of main.go:255 and main.go:279, computed on the Gregorian calendar.     *)
(***************************************************************************)
\* clock ticks in one hour
TicksPerHour == 2

\* main.go:82
retentionHours == 168

\* main.go:89: the offset of Central Standard Time from UTC, in hours, which
\* is also the fixed offset of the fallback zone
ZoneOffsetHours == -6

\* main.go:85: the offset of Central Daylight Time from UTC, in hours
DaylightOffsetHours == -5

\* time.Hour in seconds
SecondsPerHour == 3600

\* main.go:85-89: s.location is the zone America/Chicago of the zone
\* database, or a zone fixed at the standard offset when that cannot be loaded
Locations == {"America/Chicago", "fixed"}

IsLeap(year) == (year % 4 = 0) /\ ((year % 100 # 0) \/ (year % 400 = 0))

\* time.daysIn
DaysIn(month, year) ==
    IF month = 2 THEN (IF IsLeap(year) THEN 29 ELSE 28)
    ELSE IF month \in {4, 6, 9, 11} THEN 30 ELSE 31

\* days from 1970-01-01 to the civil date year-month-day
DaysFromCivil(year, month, day) ==
    LET y == IF month <= 2 THEN year - 1 ELSE year
        era == y \div 400
        yoe == y - era * 400
        mp == IF month > 2 THEN month - 3 ELSE month + 9
        doy == (153 * mp + 2) \div 5 + day - 1
        doe == yoe * 365 + yoe \div 4 - yoe \div 100 + doy
    IN era * 146097 + doe - 719468

\* the civil date of the day that many days after 1970-01-01
CivilFromDays(days) ==
    LET z == days + 719468
        era == z \div 146097
        doe == z - era * 146097
        yoe == (doe - doe \div 1460 + doe \div 36524 - doe \div 146096) \div 365
        doy == doe - (365 * yoe + yoe \div 4 - yoe \div 100)
        mp == (5 * doy + 2) \div 153
        d == doy - (153 * mp + 2) \div 5 + 1
        m == IF mp < 10 THEN mp + 3 ELSE mp - 9
        y == yoe + era * 400 + (IF m <= 2 THEN 1 ELSE 0)
    IN [year |-> y, month |-> m, day |-> d]

\* the day of the week of a day counted from 1970-01-01, Sunday being 0
Weekday(days) == (days + 4) % 7

\* the first Sunday that is the given day of the month or follows it
SundayFrom(year, month, day) ==
    DaysFromCivil(year, month, day)
        + ((7 - Weekday(DaysFromCivil(year, month, day))) % 7)

\* the rule CST6CDT,M3.2.0,M11.1.0 that ends the zone file: the hours from
\* the epoch to the start and to the end of daylight saving time in a
\* year, 2 o'clock standard time on the second Sunday of March and
\* 2 o'clock daylight time on the first Sunday of November
RuleStart(year) == SundayFrom(year, 3, 8) * 24 + 2 - ZoneOffsetHours

RuleEnd(year) == SundayFrom(year, 11, 1) * 24 + 2 - DaylightOffsetHours

\* the offset the rule gives at the hour h after the epoch, in seconds
RuleOffset(h) ==
    CHOOSE offset \in
        { IF h >= RuleStart(year) /\ h < RuleEnd(year)
          THEN DaylightOffsetHours * SecondsPerHour
          ELSE ZoneOffsetHours * SecondsPerHour :
            year \in {CivilFromDays(h \div 24).year} } : TRUE

\* the first hour of 2007: from then on the transitions of the zone file
\* are those of the rule, which also holds after the last of them
RuleFrom == DaysFromCivil(2007, 1, 1) * 24

\* the offset of local mean time in Chicago, in seconds, which the zone
\* file gives for instants before its first transition
LocalMeanOffset == -21036

\* the transitions of America/Chicago in the zone file before 2007: the
\* hour after the epoch and the offset, in seconds, in force from then on
Transitions ==
    <<
       <<-754902, -21600>>, <<-453688, -18000>>, <<-448649, -21600>>,
       <<-444952, -18000>>, <<-439913, -21600>>, <<-434368, -18000>>,
       <<-431009, -21600>>, <<-427480, -18000>>, <<-422273, -21600>>,
       <<-417904, -18000>>, <<-414377, -21600>>, <<-409168, -18000>>,
       <<-405473, -21600>>, <<-400432, -18000>>, <<-396737, -21600>>,
       <<-391696, -18000>>, <<-388001, -21600>>, <<-382960, -18000>>,
       <<-379265, -21600>>, <<-374224, -18000>>, <<-370529, -21600>>,
       <<-365320, -18000>>, <<-361625, -21600>>, <<-356584, -18000>>,
       <<-352889, -21600>>, <<-347848, -18000>>, <<-344153, -21600>>,
       <<-339112, -18000>>, <<-335417, -21600>>, <<-330376, -18000>>,
       <<-326681, -21600>>, <<-321472, -18000>>, <<-317945, -21600>>,
       <<-312736, -18000>>, <<-309041, -21600>>, <<-304000, -18000>>,
       <<-300305, -21600>>, <<-296608, -18000>>, <<-290393, -21600>>,
       <<-286528, -18000>>, <<-282833, -21600>>, <<-277792, -18000>>,
       <<-274097, -21600>>, <<-268888, -18000>>, <<-265361, -21600>>,
       <<-260152, -18000>>, <<-256457, -21600>>, <<-251416, -18000>>,
       <<-247721, -21600>>, <<-244504, -18000>>, <<-213721, -18000>>,
       <<-212609, -21600>>, <<-207568, -18000>>, <<-203873, -21600>>,
       <<-198832, -18000>>, <<-195137, -21600>>, <<-190096, -18000>>,
       <<-186401, -21600>>, <<-181360, -18000>>, <<-177665, -21600>>,
       <<-172456, -18000>>, <<-168929, -21600>>, <<-163720, -18000>>,
       <<-160025, -21600>>, <<-154984, -18000>>, <<-151289, -21600>>,
       <<-146248, -18000>>, <<-142553, -21600>>, <<-137512, -18000>>,
       <<-133817, -21600>>, <<-128776, -18000>>, <<-124241, -21600>>,
       <<-119872, -18000>>, <<-115505, -21600>>, <<-111136, -18000>>,
       <<-106769, -21600>>, <<-102400, -18000>>, <<-98033, -21600>>,
       <<-93664, -18000>>, <<-89297, -21600>>, <<-84928, -18000>>,
       <<-80393, -21600>>, <<-76024, -18000>>, <<-71657, -21600>>,
       <<-67288, -18000>>, <<-62921, -21600>>, <<-58552, -18000>>,
       <<-54185, -21600>>, <<-49816, -18000>>, <<-45449, -21600>>,
       <<-41080, -18000>>, <<-36545, -21600>>, <<-32344, -18000>>,
       <<-27809, -21600>>, <<-23440, -18000>>, <<-19073, -21600>>,
       <<-14704, -18000>>, <<-10337, -21600>>, <<-5968, -18000>>,
       <<-1601, -21600>>, <<2768, -18000>>, <<7135, -21600>>,
       <<11504, -18000>>, <<16039, -21600>>, <<20408, -18000>>,
       <<24775, -21600>>, <<29144, -18000>>, <<33511, -21600>>,
       <<35192, -18000>>, <<42247, -21600>>, <<45104, -18000>>,
       <<50983, -21600>>, <<55352, -18000>>, <<59887, -21600>>,
       <<64088, -18000>>, <<68623, -21600>>, <<72992, -18000>>,
       <<77359, -21600>>, <<81728, -18000>>, <<86095, -21600>>,
       <<90464, -18000>>, <<94831, -21600>>, <<99200, -18000>>,
       <<103567, -21600>>, <<107936, -18000>>, <<112471, -21600>>,
       <<116672, -18000>>, <<121207, -21600>>, <<125576, -18000>>,
       <<129943, -21600>>, <<134312, -18000>>, <<138679, -21600>>,
       <<143048, -18000>>, <<147415, -21600>>, <<151280, -18000>>,
       <<156151, -21600>>, <<160016, -18000>>, <<165055, -21600>>,
       <<168752, -18000>>, <<173791, -21600>>, <<177488, -18000>>,
       <<182527, -21600>>, <<186392, -18000>>, <<191263, -21600>>,
       <<195128, -18000>>, <<199999, -21600>>, <<203864, -18000>>,
       <<208903, -21600>>, <<212600, -18000>>, <<217639, -21600>>,
       <<221336, -18000>>, <<226375, -21600>>, <<230240, -18000>>,
       <<235111, -21600>>, <<238976, -18000>>, <<243847, -21600>>,
       <<247712, -18000>>, <<252583, -21600>>, <<256448, -18000>>,
       <<261487, -21600>>, <<265184, -18000>>, <<270223, -21600>>,
       <<273920, -18000>>, <<278959, -21600>>, <<282824, -18000>>,
       <<287695, -21600>>, <<291560, -18000>>, <<296431, -21600>>,
       <<300296, -18000>>, <<305335, -21600>>, <<309032, -18000>>,
       <<314071, -21600>>, <<317768, -18000>>, <<322807, -21600>>
    >>

\* Location.lookup: the offset in force at the hour h after the epoch
\* (UTC), in seconds
OffsetAt(h, loc) ==
    IF loc = "fixed" THEN ZoneOffsetHours * SecondsPerHour
    ELSE IF h >= RuleFrom THEN RuleOffset(h)
    ELSE CHOOSE offset \in
            { IF n = 0 THEN LocalMeanOffset ELSE Transitions[n][2] :
                n \in {Cardinality({i \in DOMAIN Transitions :
                                       Transitions[i][1] <= h})} } : TRUE

\* t.In(s.location): the civil date and hour of an instant
Civil(t, loc) ==
    LET h == t \div TicksPerHour
        sec == (t % TicksPerHour) * (SecondsPerHour \div TicksPerHour)
        hours == h + ((sec + OffsetAt(h, loc)) \div SecondsPerHour)
        date == CivilFromDays(hours \div 24)
    IN [year |-> date.year, month |-> date.month, day |-> date.day,
        hour |-> hours % 24]

\* time.Date(year, month, day, hour, 0, 0, 0, s.location): the offset is
\* looked up at the civil hour read as UTC and, when the instant that gives
\* lies in another period of the zone, looked up again at that instant.
\* unix and utc count hours; the instant is given in whole clock ticks,
\* rounded down, so that it is before an instant the clock shows exactly
\* when time.Time.Before says so.
Date(year, month, day, hour, loc) ==
    CHOOSE t \in
        UNION { { unix * TicksPerHour
                    + ((-OffsetAt(utc, loc) * TicksPerHour)
                          \div SecondsPerHour) :
                    utc \in {unix + ((-OffsetAt(unix, loc))
                                       \div SecondsPerHour)} } :
                  unix \in {DaysFromCivil(year, month, day) * 24 + hour} } :
        TRUE

DigitChars == <<"0", "1", "2", "3", "4", "5", "6", "7", "8", "9">>

IsDigit(s, i) == i <= Len(s) /\ \E n \in 1..10 : DigitChars[n] = s[i]

DigitVal(c) == (CHOOSE n \in 1..10 : DigitChars[n] = c) - 1

Pad2(n) == <<DigitChars[((n \div 10) % 10) + 1], DigitChars[(n % 10) + 1]>>

Pad4(n) == Pad2(n \div 100) \o Pad2(n % 100)

Dash == "-"
LetterT == "T"
LogSuffix == <<Dot, "l", "o", "g">>

\* t.Format("2006-01-02T15"), line 255
Format(t, loc) ==
    LET c == Civil(t, loc)
    IN Pad4(c.year) \o <<Dash>> \o Pad2(c.month) \o <<Dash>> \o Pad2(c.day)
         \o <<LetterT>> \o Pad2(c.hour)

\* Server.currentLogFile at the instant time.Now() returned, without the
\* directory (lines 253-257)
currentLogFile(t, loc) == Format(t, loc) \o LogSuffix

NoParse == [ok |-> FALSE, n |-> 0, rest |-> <<>>]

\* time.skip: the literal text of the layout must be next in the value
Skip(value, prefix) ==
    IF HasPrefix(value, prefix)
    THEN [ok |-> TRUE, n |-> 0,
          rest |-> SubSeq(value, Len(prefix) + 1, Len(value))]
    ELSE NoParse

\* time.getnum: two digits, or one digit when the field is not fixed
GetNum(s, fixed) ==
    IF ~IsDigit(s, 1) THEN NoParse
    ELSE IF ~IsDigit(s, 2)
    THEN (IF fixed THEN NoParse
          ELSE [ok |-> TRUE, n |-> DigitVal(s[1]), rest |-> Tail(s)])
    ELSE [ok |-> TRUE, n |-> DigitVal(s[1]) * 10 + DigitVal(s[2]),
          rest |-> Tail(Tail(s))]

\* the year of the layout: exactly four digits
GetYear(s) ==
    IF Len(s) >= 4 /\ \A i \in 1..4 : IsDigit(s, i)
    THEN [ok |-> TRUE,
          n |-> DigitVal(s[1]) * 1000 + DigitVal(s[2]) * 100
                  + DigitVal(s[3]) * 10 + DigitVal(s[4]),
          rest |-> SubSeq(s, 5, Len(s))]
    ELSE NoParse

\* the layout "2006-01-02T15.log" as time.nextStdChunk cuts it: the year,
\* the month, the day and the hour, and the literal text between them
Layout == <<"2006", Dash, "01", Dash, "02", LetterT, "15", Dot, "l", "o", "g">>

\* one element of the layout read off the front of the value: the number
\* of a field, checked against its range as Parse does at once for the
\* month and the hour, or a character of literal text
Element(std, value) ==
    IF std = "2006" THEN GetYear(value)
    ELSE IF std = "01"
    THEN (IF GetNum(value, TRUE).ok /\ GetNum(value, TRUE).n >= 1
             /\ GetNum(value, TRUE).n <= 12
          THEN GetNum(value, TRUE) ELSE NoParse)
    ELSE IF std = "02" THEN GetNum(value, TRUE)
    ELSE IF std = "15"
    THEN (IF GetNum(value, FALSE).ok /\ GetNum(value, FALSE).n < 24
          THEN GetNum(value, FALSE) ELSE NoParse)
    ELSE Skip(value, <<std>>)

\* the loop of time.Parse over the layout: the numbers read so far, and at
\* the end of the layout no text may be left
RECURSIVE ParseLayout(_, _, _)
ParseLayout(layout, value, fields) ==
    IF layout = <<>>
    THEN [ok |-> value = <<>>, fields |-> fields]
    ELSE CHOOSE out \in
            { IF r.ok
              THEN ParseLayout(Tail(layout), r.rest, Append(fields, r.n))
              ELSE [ok |-> FALSE, fields |-> <<>>] :
                r \in {Element(Head(layout), value)} } : TRUE

NoTime == [ok |-> FALSE, t |-> 0]

\* time.ParseInLocation("2006-01-02T15.log", name, s.location), line 279:
\* the fields are read, the day is checked against its month, and the
\* instant is that of the civil hour in the zone
ParseInLocation(name, loc) ==
    CHOOSE out \in
        { IF /\ p.ok
             /\ p.fields[5] >= 1
             /\ p.fields[5] <= DaysIn(p.fields[3], p.fields[1])
          THEN [ok |-> TRUE,
                t |-> Date(p.fields[1], p.fields[3], p.fields[5],
                           p.fields[7], loc)]
          ELSE NoTime :
            p \in {ParseLayout(Layout, name, <<>>)} } : TRUE

(***************************************************************************)
(* The logs directory and cleanupOldLogs (lines 259-293), one action per   *)
(* step of the sweep: the directory is read and the cutoff fixed, then     *)
(* each entry is skipped or removed in the order os.ReadDir returned it.   *)
(***************************************************************************)
\* how far the clock advances
MaxTicks == 2

\* how many system calls fail, each with its diagnostic
MaxFailures == 1

\* the requests that log concurrently
NumRequests == 2

Requests == 1..NumRequests

\* the instant the program starts: a week earlier daylight saving time had
\* not yet begun
StartNow == Date(2025, 3, 15, 23, "America/Chicago")

\* the characters of file names in the order of their byte values
ByteOrder == <<"-", ".", "0", "1", "2", "3", "4", "5", "6", "7", "8", "9",
               "T", "a", "g", "l", "o", "t", "x">>

ByteOf(c) == CHOOSE i \in DOMAIN ByteOrder : ByteOrder[i] = c

\* a < b as Go compares strings
RECURSIVE NameLess(_, _)
NameLess(a, b) ==
    IF b = <<>> THEN FALSE
    ELSE IF a = <<>> THEN TRUE
    ELSE IF a[1] # b[1] THEN ByteOf(a[1]) < ByteOf(b[1])
    ELSE NameLess(Tail(a), Tail(b))

\* os.ReadDir: the entries of the directory sorted by file name
RECURSIVE ReadDir(_)
ReadDir(dir) ==
    IF DOMAIN dir = {} THEN <<>>
    ELSE LET first == CHOOSE n \in DOMAIN dir :
                         \A m \in DOMAIN dir \ {n} : NameLess(n, m)
         IN <<[name |-> first, isDir |-> dir[first].isDir]>>
              \o ReadDir([m \in DOMAIN dir \ {first} |-> dir[m]])

\* the directory after os.Remove(name)
Unlink(dir, name) == [m \in DOMAIN dir \ {name} |-> dir[m]]

\* the retention window added to the instant
CutoffAhead(t) == t + retentionHours * TicksPerHour

\* line 266: time.Now().In(s.location).Add(-retentionHours * time.Hour)
Cutoff(t) == t - retentionHours * TicksPerHour

\* t is before u or is u
NotAfter(t, u) == t <= u

\* t.Before(u)
Before(t, u) == t < u

\* lines 269-284: the entry is one that cleanupOldLogs goes on to remove
Expired(entry, cutoff, loc) ==
    /\ ~entry.isDir
    /\ HasSuffix(entry.name, LogSuffix)
    /\ \E t \in {ParseInLocation(entry.name, loc)} :
          t.ok /\ Before(t.t, cutoff)

\* the sweeper before its first sweep: its position, the entries it has
\* still to visit and its cutoff; the instant and the directory it read,
\* the removals that failed, and how the sweep before it went
NewSweep == [pc |-> "start", entries |-> <<>>, at |-> 0, cutoff |-> 0,
             before |-> [m \in {} |-> 0], failed |-> {}, readOk |-> FALSE,
             runs |-> 0, prevAt |-> 0, prevClean |-> FALSE]

\* the format strings of the diagnostics (lines 242, 249, 262, 287, 289)
OpenFailed == "Failed to open log file %s: %v"

EncodeFailed == "Failed to encode log entry: %v"

ReadDirFailed == "Failed to read log directory for cleanup: %v"

RemoveFailed == "Failed to remove old log %s: %v"

CleanedUp == "Cleaned up old log: %s"

\* no file name among the arguments
NoName == <<>>

\* log.Printf(msg, ...): the format and the file name among its arguments
Printf(msg, name) == output' = Append(output, [msg |-> msg, name |-> name])

\* the diagnostics of failed system calls printed so far
Failures == Cardinality({i \in DOMAIN output : output[i].msg # CleanedUp})

\* the clock advances
Advance ==
    /\ UNCHANGED location
    /\ now < StartNow + MaxTicks
    /\ now' = now + 1
    /\ UNCHANGED <<logDir, task, sweep, mainpc, removed, output>>
    /\ UNCHANGED pipeVars

\* line 260: os.ReadDir succeeds
SweepReadDir ==
    /\ UNCHANGED location
    /\ sweep.pc = "start"
    /\ sweep' = [sweep EXCEPT !.pc = "read",
                              !.entries = ReadDir(logDir),
                              !.before = logDir,
                              !.failed = {},
                              !.readOk = TRUE]
    /\ UNCHANGED <<now, logDir, task, mainpc, removed, output>>
    /\ UNCHANGED pipeVars

\* lines 260-264: os.ReadDir fails; the sweep prints and returns without
\* reading the clock
SweepReadDirFails ==
    /\ UNCHANGED location
    /\ sweep.pc = "start"
    /\ Failures < MaxFailures
    /\ Printf(ReadDirFailed, NoName)
    /\ sweep' = [sweep EXCEPT !.pc = "failed",
                              !.entries = <<>>,
                              !.before = logDir,
                              !.failed = {},
                              !.readOk = FALSE]
    /\ UNCHANGED <<now, logDir, task, mainpc, removed>>
    /\ UNCHANGED pipeVars

\* line 266: the clock is read and the cutoff computed, once for the sweep
SweepCutoff ==
    /\ UNCHANGED location
    /\ sweep.pc = "read"
    /\ sweep' = [sweep EXCEPT !.pc = "loop",
                              !.at = now,
                              !.cutoff = Cutoff(now)]
    /\ UNCHANGED <<now, logDir, task, mainpc, removed, output>>
    /\ UNCHANGED pipeVars

\* lines 268-284: a directory, a name without the suffix, a name that does
\* not parse, or a bucket not before the cutoff: the loop goes on
SweepSkip ==
    /\ UNCHANGED location
    /\ sweep.pc = "loop"
    /\ sweep.entries # <<>>
    /\ ~Expired(Head(sweep.entries), sweep.cutoff, location)
    /\ sweep' = [sweep EXCEPT !.entries = Tail(sweep.entries)]
    /\ UNCHANGED <<now, logDir, task, mainpc, removed, output>>
    /\ UNCHANGED pipeVars

\* the descriptors open on a removed file keep its unlinked contents
Orphan(name) ==
    [r \in Requests |->
        IF task[r].pc = "open" /\ task[r].file = name
        THEN [task[r] EXCEPT !.orphan = TRUE]
        ELSE task[r]]

\* SweepRemove that leaves the loop after its first removal
SweepRemoveAndStop ==
    /\ UNCHANGED location
    /\ sweep.pc = "loop"
    /\ sweep.entries # <<>>
    /\ Expired(Head(sweep.entries), sweep.cutoff, location)
    /\ logDir' = Unlink(logDir, Head(sweep.entries).name)
    /\ task' = Orphan(Head(sweep.entries).name)
    /\ removed' = removed \cup {[name |-> Head(sweep.entries).name, at |-> now]}
    /\ sweep' = [sweep EXCEPT !.pc = "removed",
                              !.entries = <<Head(sweep.entries)>>]
    /\ UNCHANGED <<now, mainpc, output>>
    /\ UNCHANGED pipeVars

\* lines 284-286: the bucket is before the cutoff and os.Remove succeeds
SweepRemove ==
    /\ UNCHANGED location
    /\ sweep.pc = "loop"
    /\ sweep.entries # <<>>
    /\ Expired(Head(sweep.entries), sweep.cutoff, location)
    /\ logDir' = Unlink(logDir, Head(sweep.entries).name)
    /\ task' = Orphan(Head(sweep.entries).name)
    /\ removed' = removed \cup {[name |-> Head(sweep.entries).name, at |-> now]}
    /\ sweep' = [sweep EXCEPT !.pc = "removed"]
    /\ UNCHANGED <<now, mainpc, output>>
    /\ UNCHANGED pipeVars

\* line 289: the sweep prints the name of the file it removed and goes on
SweepCleaned ==
    /\ UNCHANGED location
    /\ sweep.pc = "removed"
    /\ Printf(CleanedUp, Head(sweep.entries).name)
    /\ sweep' = [sweep EXCEPT !.pc = "loop", !.entries = Tail(sweep.entries)]
    /\ UNCHANGED <<now, logDir, task, mainpc, removed>>
    /\ UNCHANGED pipeVars

\* lines 286-288: os.Remove fails; the sweep prints and goes on
SweepRemoveFails ==
    /\ UNCHANGED location
    /\ sweep.pc = "loop"
    /\ sweep.entries # <<>>
    /\ Expired(Head(sweep.entries), sweep.cutoff, location)
    /\ Failures < MaxFailures
    /\ Printf(RemoveFailed, Head(sweep.entries).name)
    /\ sweep' = [sweep EXCEPT !.entries = Tail(sweep.entries),
                              !.failed = sweep.failed
                                           \cup {Head(sweep.entries).name}]
    /\ UNCHANGED <<now, logDir, task, mainpc, removed>>
    /\ UNCHANGED pipeVars

\* cleanupOldLogs returns: to main at line 106, which goes on to start
\* periodicCleanup and the listener (lines 109-120), or to the loop of
\* periodicCleanup (line 299), which waits for the next tick
SweepReturn ==
    /\ UNCHANGED location
    /\ \/ sweep.pc = "failed"
       \/ sweep.pc = "loop" /\ sweep.entries = <<>>
    /\ sweep' = [NewSweep EXCEPT
                    !.pc = "waiting",
                    !.runs = IF sweep.runs < 2 THEN sweep.runs + 1 ELSE 2,
                    !.prevAt = sweep.at,
                    !.prevClean = sweep.readOk /\ sweep.failed = {}]
    /\ mainpc' = "serving"
    /\ UNCHANGED <<now, logDir, task, removed, output>>
    /\ UNCHANGED pipeVars

\* a tick that periodicCleanup lets pass without sweeping
TickDropped ==
    /\ mainpc = "serving"
    /\ sweep.pc = "waiting"
    /\ UNCHANGED logVars
    /\ UNCHANGED pipeVars

\* lines 296-300: the ticker fires and periodicCleanup sweeps again
Tick ==
    /\ UNCHANGED location
    /\ mainpc = "serving"
    /\ sweep.pc = "waiting"
    /\ sweep' = [sweep EXCEPT !.pc = "start"]
    /\ UNCHANGED <<now, logDir, task, mainpc, removed, output>>
    /\ UNCHANGED pipeVars

\* a request whose deferred function has not run yet
IdleTask == [pc |-> "idle", stamp |-> 0, file |-> <<>>, orphan |-> FALSE,
             offset |-> 0, result |-> "none", wrote |-> 0]

\* the bytes of one encoded entry, the last of them the newline
LineLen == 2

\* what encoder.Encode hands to one Write: the line of request r
Line(r) == [k \in 1..LineLen |-> [req |-> r, k |-> k]]

\* the line of a request that was logged before the program started
OldLine == Line(0)

\* a name in the form of the layout, whatever its numbers
BucketName(year, month, day, hour) ==
    Pad4(year) \o <<Dash>> \o Pad2(month) \o <<Dash>> \o Pad2(day)
        \o <<LetterT>> \o Pad2(hour) \o LogSuffix

\* what the logs directory may hold when the program starts: a bucket of
\* a year in which daylight saving time went by an earlier rule, buckets
\* before, at and after the cutoff of StartNow, the bucket of the hour of
\* StartNow, a bucket of a day that does
\* not exist, a name with a one-digit hour, names that are no buckets, and
\* a subdirectory named like an old bucket
StartEntries ==
    { [name |-> BucketName(2006, 3, 20, 10), isDir |-> FALSE],
      [name |-> BucketName(2025, 3, 8, 21), isDir |-> FALSE],
      [name |-> BucketName(2025, 3, 8, 22), isDir |-> FALSE],
      [name |-> BucketName(2025, 3, 15, 22), isDir |-> FALSE],
      [name |-> BucketName(2025, 3, 15, 23), isDir |-> FALSE],
      [name |-> BucketName(2025, 2, 30, 10), isDir |-> FALSE],
      [name |-> SubSeq(BucketName(2025, 3, 8, 0), 1, 13) \o <<Dot, "t", "x", "t">>,
       isDir |-> FALSE],
      [name |-> <<"2", "0", "2", "5", Dash, "0", "3", Dash, "0", "8",
                  LetterT, "9">> \o LogSuffix, isDir |-> FALSE],
      [name |-> <<"a">> \o LogSuffix, isDir |-> FALSE],
      [name |-> BucketName(2025, 3, 7, 10), isDir |-> TRUE] }

\* the directory that holds these entries
DirOf(entries) ==
    [n \in {e.name : e \in entries} |->
        LET e == CHOOSE x \in entries : x.name = n
        IN [isDir |-> e.isDir, data |-> IF e.isDir THEN <<>> ELSE OldLine]]

\* the program before it has touched the logs directory
LogQuiet ==
    /\ location = "America/Chicago"
    /\ now = StartNow
    /\ logDir = DirOf({})
    /\ task = [r \in Requests |-> IdleTask]
    /\ sweep = NewSweep
    /\ mainpc = "cleanup"
    /\ removed = {}
    /\ output = <<>>

\* the pipeline variables while no request is looked at
PipeQuiet ==
    /\ wwwRoot = <<Slash, "w">>
    /\ method = "GET"
    /\ path = <<Slash>>
    /\ pc = "none"
    /\ cleanPath = <<>>
    /\ err = Unset
    /\ info = NoInfo
    /\ opened = NotOpened
    /\ rr = NewRecorder
    /\ w = NewResponseWriter(FALSE)
    /\ calls = <<>>
    /\ steps = <<>>
    /\ logCalls = <<>>
    /\ logFile = <<>>
    /\ diag = <<>>

\* main at line 106: the sweeper alone, over starting directories of up to
\* two entries and the one of all entries
InitSweep ==
    /\ PipeQuiet
    /\ location \in Locations
    /\ now = StartNow
    /\ logDir \in {DirOf(S) : S \in {E \in SUBSET StartEntries :
                                        Cardinality(E) <= 2 \/ E = StartEntries}}
    /\ task = [r \in Requests |-> IdleTask]
    /\ sweep = NewSweep
    /\ mainpc = "cleanup"
    /\ removed = {}
    /\ output = <<>>

NextSweep ==
    \/ Advance
    \/ SweepReadDir
    \/ SweepReadDirFails
    \/ SweepCutoff
    \/ SweepSkip
    \/ SweepRemove
    \/ SweepCleaned
    \/ SweepRemoveFails
    \/ SweepReturn
    \/ Tick

SpecSweep == InitSweep /\ [][NextSweep]_vars

(***************************************************************************)
(* The deferred function and logRequest (lines 133-144 and 237-257) of     *)
(* requests that finish concurrently, one action per system call.          *)
(***************************************************************************)
\* line 240: os.O_APPEND|os.O_CREATE|os.O_WRONLY
OpenFlags == {"O_APPEND", "O_CREATE", "O_WRONLY"}

\* the file after a write of the line at the offset
WriteAt(data, offset, line) ==
    LET end == offset + Len(line)
    IN [i \in 1..(IF Len(data) > end THEN Len(data) ELSE end) |->
          IF i > offset /\ i <= end THEN line[i - offset] ELSE data[i]]

\* write(2) on a descriptor: at the end of the file when it was opened
\* for appending, at the descriptor's offset otherwise
FileWrite(data, flags, offset, line) ==
    WriteAt(data, IF "O_APPEND" \in flags THEN Len(data) ELSE offset, line)

\* line 136: the deferred function reads the clock for the entry's timestamp
LogStamp(r) ==
    /\ UNCHANGED location
    /\ mainpc = "serving"
    /\ task[r].pc = "idle"
    /\ task' = [task EXCEPT ![r].pc = "stamped", ![r].stamp = now]
    /\ UNCHANGED <<now, logDir, sweep, mainpc, removed, output>>
    /\ UNCHANGED pipeVars

\* lines 238 and 253-257: currentLogFile reads the clock for the file name
LogName(r) ==
    /\ UNCHANGED location
    /\ task[r].pc = "stamped"
    /\ task' = [task EXCEPT ![r].pc = "named", ![r].file = currentLogFile(now, location)]
    /\ UNCHANGED <<now, logDir, sweep, mainpc, removed, output>>
    /\ UNCHANGED pipeVars

\* line 240: os.OpenFile succeeds, creating the file when it is not there
LogOpen(r) ==
    /\ UNCHANGED location
    /\ task[r].pc = "named"
    /\ LET name == task[r].file
       IN /\ name \in DOMAIN logDir => ~logDir[name].isDir
          /\ name \in DOMAIN logDir \/ "O_CREATE" \in OpenFlags
          /\ logDir' = IF name \in DOMAIN logDir THEN logDir
                       ELSE [m \in DOMAIN logDir \cup {name} |->
                               IF m = name
                               THEN [isDir |-> FALSE, data |-> <<>>]
                               ELSE logDir[m]]
    /\ task' = [task EXCEPT ![r].pc = "open", ![r].offset = 0,
                            ![r].wrote = 0,
                            ![r].orphan = FALSE]
    /\ UNCHANGED <<now, sweep, mainpc, removed, output>>
    /\ UNCHANGED pipeVars

\* lines 240-244: os.OpenFile fails; logRequest prints and returns
LogOpenFails(r) ==
    /\ UNCHANGED location
    /\ task[r].pc = "named"
    /\ Failures < MaxFailures
    /\ Printf(OpenFailed, task[r].file)
    /\ task' = [task EXCEPT ![r].pc = "done", ![r].result = "dropped"]
    /\ UNCHANGED <<now, logDir, sweep, mainpc, removed>>
    /\ UNCHANGED pipeVars

\* what the Write of Encode has yet to write of the line of request r
Rest(r) == SubSeq(Line(r), task[r].wrote + 1, LineLen)

\* the directory after a write(2) of the bytes on the descriptor of
\* request r; a descriptor whose file was removed writes to the unlinked
\* file, which no name reaches
Written(r, bytes) ==
    IF task[r].orphan THEN logDir
    ELSE [logDir EXCEPT ![task[r].file].data =
             FileWrite(@, OpenFlags, task[r].offset, bytes)]

\* line 248: Encode hands the line to one Write, which loops over
\* write(2); a write(2) that writes some of the bytes left, not all
LogWriteShort(r) ==
    /\ UNCHANGED location
    /\ task[r].pc = "open"
    /\ \E n \in 1..(Len(Rest(r)) - 1) :
          /\ logDir' = Written(r, SubSeq(Rest(r), 1, n))
          /\ task' = [task EXCEPT ![r].wrote = @ + n, ![r].offset = @ + n]
    /\ UNCHANGED <<now, sweep, mainpc, removed, output>>
    /\ UNCHANGED pipeVars

\* lines 247-248 and 245: a write(2) writes all the bytes left, Encode
\* returns nil and the deferred Close follows
LogEncode(r) ==
    /\ UNCHANGED location
    /\ task[r].pc = "open"
    /\ logDir' = Written(r, Rest(r))
    /\ task' = [task EXCEPT ![r].pc = "done", ![r].result = "appended",
                            ![r].wrote = LineLen,
                            ![r].offset = @ + Len(Rest(r))]
    /\ UNCHANGED <<now, sweep, mainpc, removed, output>>
    /\ UNCHANGED pipeVars

\* lines 248-250 and 245: a write(2) fails and writes nothing, what earlier
\* ones wrote of the line stays; logRequest prints and returns
LogEncodeFails(r) ==
    /\ UNCHANGED location
    /\ task[r].pc = "open"
    /\ Failures < MaxFailures
    /\ Printf(EncodeFailed, NoName)
    /\ task' = [task EXCEPT ![r].pc = "done", ![r].result = "dropped"]
    /\ UNCHANGED <<now, logDir, sweep, mainpc, removed>>
    /\ UNCHANGED pipeVars

\* the program with its sweeper and its first request, started on a directory
\* of the bucket at the cutoff, which the clock makes old, and the bucket
\* of the starting hour
InitLog ==
    /\ PipeQuiet
    /\ location \in Locations
    /\ now = StartNow
    /\ logDir = DirOf({[name |-> BucketName(2025, 3, 8, 22), isDir |-> FALSE],
                       [name |-> currentLogFile(StartNow, location),
                        isDir |-> FALSE]})
    /\ task = [r \in Requests |->
                 IF r = 1 THEN IdleTask
                 ELSE [IdleTask EXCEPT !.pc = "absent"]]
    /\ sweep = NewSweep
    /\ mainpc = "cleanup"
    /\ removed = {}
    /\ output = <<>>

NextLog ==
    \/ Advance
    \/ SweepReadDir
    \/ SweepReadDirFails
    \/ SweepCutoff
    \/ SweepSkip
    \/ SweepRemove
    \/ SweepCleaned
    \/ SweepRemoveFails
    \/ SweepReturn
    \/ Tick
    \/ LogStamp(1)
    \/ LogName(1)
    \/ LogOpen(1)
    \/ LogOpenFails(1)
    \/ LogWriteShort(1)
    \/ LogEncode(1)
    \/ LogEncodeFails(1)

SpecLog == InitLog /\ [][NextLog]_vars

\* the program started with the zone loaded at line 85
InitServer ==
    /\ InitLog
    /\ location = "America/Chicago"

\* the steps of the sweeper that need no system call to succeed: at most
\* one of them is enabled at a time
SweeperStep ==
    \/ Tick
    \/ SweepCutoff
    \/ SweepSkip
    \/ SweepCleaned
    \/ SweepReturn

\* the ticker keeps firing and the sweeper keeps running (lines 296-300);
\* os.ReadDir and os.Remove do not fail for ever
SpecServerFair ==
    /\ InitServer
    /\ [][NextLog]_vars
    /\ WF_vars(SweeperStep)
    /\ SF_vars(SweepReadDir)
    /\ SF_vars(SweepRemove)

\* the server in its first hour, the startup sweep done and the ticker not
\* yet fired: the requests log concurrently
InitAppend ==
    /\ PipeQuiet
    /\ location \in Locations
    /\ now = StartNow
    /\ logDir \in
          { DirOf({}),
            DirOf({[name |-> currentLogFile(StartNow, location),
                    isDir |-> FALSE]}) }
    /\ task = [r \in Requests |-> IdleTask]
    /\ sweep = [NewSweep EXCEPT !.pc = "waiting", !.runs = 1,
                                !.prevAt = StartNow, !.prevClean = TRUE]
    /\ mainpc = "serving"
    /\ removed = {}
    /\ output = <<>>

NextAppend ==
    \/ Advance
    \/ \E r \in Requests : LogStamp(r)
    \/ \E r \in Requests : LogName(r)
    \/ \E r \in Requests : LogOpen(r)
    \/ \E r \in Requests : LogOpenFails(r)
    \/ \E r \in Requests : LogWriteShort(r)
    \/ \E r \in Requests : LogEncode(r)
    \/ \E r \in Requests : LogEncodeFails(r)

SpecAppend == InitAppend /\ [][NextAppend]_vars

\* lines 125-130: a request arrives; the recorder wraps its ResponseWriter
Init ==
    /\ wwwRoot \in Roots
    /\ method \in Methods
    /\ path \in Paths
    /\ pc = "received"
    /\ cleanPath = <<>>
    /\ err = Unset
    /\ info = NoInfo
    /\ opened = NotOpened
    /\ rr = NewRecorder
    /\ w = NewResponseWriter(method = "HEAD")
    /\ calls = <<>>
    /\ steps = <<>>
    /\ logCalls = <<>>
    /\ logFile = <<>>
    /\ diag = <<>>
    /\ LogQuiet

Next ==
    \/ MethodCheck
    \/ PathValidate
    \/ Stat
    \/ DirCheck
    \/ ExtensionCheck
    \/ Serve
    \/ DeferredLog

Spec == Init /\ [][Next]_vars

(***************************************************************************)
(* A responseRecorder on its own, driven by any sequence of WriteHeader    *)
(* and Write calls.                                                        *)
(***************************************************************************)
\* the codes handed to WriteHeader: those the program and http.ServeFile
\* send, the informational ones, 204, and the two next to the valid range
Codes == {StatusOK, StatusMovedPermanently, StatusForbidden, StatusNotFound,
          StatusMethodNotAllowed, StatusInternalServerError,
          StatusPartialContent, StatusNotModified, StatusPreconditionFailed,
          StatusRequestedRangeNotSatisfiable, StatusNoContent,
          StatusContinue, StatusSwitchingProtocols, StatusEarlyHints,
          99, 1000}

\* a handler calls WriteHeader on the recorder
RecorderWriteHeader ==
    /\ UNCHANGED logVars
    /\ pc = "recorder"
    /\ ~w.panicked
    /\ Len(calls) < MaxCalls
    /\ \E code \in Codes : SetConn(CallWriteHeader(Conn, code))
    /\ UNCHANGED <<wwwRoot, method, path, pc, cleanPath, err, info, opened,
                   steps, logCalls, logFile, diag>>

\* a handler calls Write on the recorder
RecorderWrite ==
    /\ UNCHANGED logVars
    /\ pc = "recorder"
    /\ ~w.panicked
    /\ Len(calls) < MaxCalls
    /\ \E n \in 0..MaxSize : SetConn(CallWrite(Conn, n))
    /\ UNCHANGED <<wwwRoot, method, path, pc, cleanPath, err, info, opened,
                   steps, logCalls, logFile, diag>>

\* the handler returns and net/http finishes the reply
RecorderReturn ==
    /\ UNCHANGED logVars
    /\ pc = "recorder"
    /\ ~w.panicked
    /\ pc' = "finished"
    /\ w' = ImplicitHeader(w)
    /\ UNCHANGED <<wwwRoot, method, path, cleanPath, err, info, opened, rr,
                   calls, steps, logCalls, logFile, diag>>

InitRecorder ==
    /\ wwwRoot = <<Slash, "w">>
    /\ method \in {"GET", "HEAD"}
    /\ path = <<Slash>>
    /\ pc = "recorder"
    /\ cleanPath = <<>>
    /\ err = Unset
    /\ info = NoInfo
    /\ opened = NotOpened
    /\ rr = NewRecorder
    /\ w = NewResponseWriter(method = "HEAD")
    /\ calls = <<>>
    /\ steps = <<>>
    /\ logCalls = <<>>
    /\ logFile = <<>>
    /\ diag = <<>>
    /\ LogQuiet

NextRecorder == RecorderWriteHeader \/ RecorderWrite \/ RecorderReturn

SpecRecorder == InitRecorder /\ [][NextRecorder]_vars

(***************************************************************************)
(* Properties.                                                             *)
(***************************************************************************)
Range(f) == {f[i] : i \in DOMAIN f}

Count(f, x) == Cardinality({i \in DOMAIN f : f[i] = x})

Finished == pc = "done"

\* sanitizePath has been called on the request
Validated == err # Unset

Accepted == Validated /\ err = NoError

Rejected == Validated /\ err # NoError

\* C1: whichever branch handleRequest leaves by, logRequest is invoked
\* exactly once, and only once the response has been decided: nothing is
\* handed to logRequest before the body has returned, and the one entry
\* carries the status that went to the client.
C1_LoggedOnceOnEveryExit ==
    /\ Finished =>
          /\ Len(logCalls) = 1
          /\ Count(steps, "log") = 1
          /\ steps[Len(steps)] = "log"
          /\ w.wroteHeader
          /\ logCalls[1].status = w.status
    /\ ~Finished => logCalls = <<>> /\ Count(steps, "log") = 0

\* a request finished on the disallowed-extension branch, logged once
C1_Witness ==
    /\ Finished
    /\ steps = <<"method", "sanitize", "stat", "isdir", "ext", "log">>
    /\ Len(logCalls) = 1

\* C2: every candidate sanitizePath accepts resolves to the served root or
\* below it: the absolute result is the absolute root or has root +
\* separator as a literal prefix, and its elements begin with the root's.
C2_AcceptedUnderRoot ==
    Accepted =>
       LET absPath == Abs(cleanPath)
           absRoot == Abs(wwwRoot)
           rootElems == SplitPath(absRoot)
       IN /\ \/ absPath = absRoot
             \/ HasPrefix(absPath, absRoot \o <<Slash>>)
          /\ HasPrefix(SplitPath(absPath), rootElems)
          /\ ~Contains(absPath, <<Dot, Dot>>)

\* a candidate accepted under a relative served root
C2_Witness ==
    /\ Accepted
    /\ wwwRoot = <<"w">>
    /\ Abs(cleanPath) = <<Slash, "c", Slash, "w", Slash, Dot, "m", "d">>

\* C3 as stated: every candidate containing a forward slash or a backslash
\* is rejected by sanitizePath.
C3_AnySeparatorRejected ==
    (Validated /\ (Contains(path, <<Slash>>) \/ Contains(path, <<Backslash>>)))
        => Rejected

\* C3 as amended: every candidate that still contains a forward slash or
\* a backslash once a single leading forward slash has been removed is
\* rejected by sanitizePath.
C3_SeparatorAfterStripRejected ==
    LET rest == IF path # <<>> /\ path[1] = Slash THEN Tail(path) ELSE path
    IN (Validated /\ \E i \in 1..Len(rest) : rest[i] \in {Slash, Backslash})
           => Rejected

\* a candidate rejected for a backslash, with no forward slash but the
\* leading one
C3_Witness ==
    /\ Rejected
    /\ path = <<Slash, "m", Backslash, "d">>
    /\ err = "subdirectories not allowed"

\* C4: every candidate containing the parent-directory token "..", in the
\* candidate itself or in its normalized remainder, is rejected.
C4_ParentTokenRejected ==
    (Validated /\ \/ \E i \in 1..(Len(path) - 1) : path[i] = Dot /\ path[i + 1] = Dot
                  \/ Contains(Clean(TrimPrefix(path, <<Slash>>)), <<Dot, Dot>>))
        => Rejected

\* a flat name with ".." inside it, rejected by the traversal test
C4_Witness ==
    /\ Rejected
    /\ path = <<Slash, "m", Dot, Dot, "m", "d">>
    /\ err = "directory traversal detected"

\* the reference rule of the extension policy
Servable(ext, allowed, blocked) == ext \notin blocked /\ ext \in allowed

\* C5: the extension decision is the reference rule on the lower-cased
\* extension: the file goes on to be served exactly when its extension is
\* not blocked and is allowed; and the blocklist wins even over an
\* allowlist that also holds the blocked extensions.
C5_ExtensionDecision ==
    LET ext == ToLower(Ext(cleanPath))
        decided == "ext" \in Range(steps)
        admitted == pc = "extChecked" \/ "serve" \in Range(steps)
    IN /\ decided => (admitted <=> Servable(ext, allowedExts, blockedExts))
       /\ ~decided => ~admitted
       /\ Accepted =>
             /\ ExtAdmitted(ext, allowedExts \cup blockedExts, blockedExts)
                   <=> Servable(ext, allowedExts, blockedExts)
             /\ ExtAdmitted(ext, allowedExts, blockedExts)
                   <=> Servable(ext, allowedExts, blockedExts)

\* an extension with upper-case characters, one of them outside ASCII,
\* admitted because its lower case is the allowed .ico
C5_Witness ==
    /\ pc = "extChecked"
    /\ Ext(cleanPath) = <<Dot, "U+0130", "C", "O">>
    /\ ToLower(Ext(cleanPath)) = <<Dot, "i", "c", "o">>

\* requests for the served root itself
RootRequests == { <<>>, <<Slash>>, <<Dot>>, <<Slash, Dot>> }

\* C6: a GET or HEAD request whose target is a directory (the served root,
\* or an entry os.Stat reports as a directory) is answered 403 Forbidden
\* and is never handed to the file sender.
C6_DirectoryForbidden ==
    (/\ pc \in {"returned", "done"}
     /\ method \in {"GET", "HEAD"}
     /\ path \in RootRequests \/ info.kind = "dir")
        => /\ w.status = StatusForbidden
           /\ rr.statusCode = StatusForbidden
           /\ "serve" \notin Range(steps)

\* a directory with an allowed extension in its name, answered 403
C6_Witness ==
    /\ Finished
    /\ method = "GET"
    /\ info.kind = "dir"
    /\ ToLower(Ext(cleanPath)) \in allowedExts
    /\ w.status = StatusForbidden

\* C7: a request whose method is neither GET nor HEAD is answered 405
\* with no path validation, stat or serving, and an entry with status 405
\* is handed to logRequest, which appends it to the bucket file unless the
\* append itself fails with a diagnostic.
C7_OtherMethods405 ==
    (method \notin {"GET", "HEAD"}) =>
        /\ ~Validated
        /\ info = NoInfo
        /\ Range(steps) \subseteq {"method", "log"}
        /\ pc \in {"returned", "done"} =>
              /\ w.status = StatusMethodNotAllowed
              /\ rr.statusCode = StatusMethodNotAllowed
        /\ Finished =>
              /\ steps = <<"method", "log">>
              /\ Len(logCalls) = 1
              /\ logCalls[1].status = StatusMethodNotAllowed
              /\ logCalls[1].method = method
              /\ diag = <<>> => logFile = logCalls
              /\ diag # <<>> => logFile = <<>>

\* a POST answered 405 and its entry in the bucket file
C7_Witness ==
    /\ Finished
    /\ method = "POST"
    /\ w.status = StatusMethodNotAllowed
    /\ Len(logFile) = 1
    /\ logFile[1].status = StatusMethodNotAllowed

\* a GET for a flat name whose extension is .log
LogRequested ==
    /\ method = "GET"
    /\ Accepted
    /\ Ext(cleanPath) = <<Dot, "l", "o", "g">>

\* C8 as stated: a GET for a flat file name whose extension is .log is
\* answered 403 Forbidden.
C8_LogAlways403 ==
    (Finished /\ LogRequested) => w.status = StatusForbidden

\* C8 as amended: a GET for a flat file name whose extension is .log that
\* names an existing entry of the served root is answered 403 Forbidden
\* and nothing of it is sent; for a regular file the extension test is the
\* step that rejects it.  When no such entry exists the answer is 404.
C8_ExistingLog403 ==
    (Finished /\ LogRequested) =>
        /\ info.kind \in {"file", "dir"} =>
              /\ w.status = StatusForbidden
              /\ w.body = ErrorBody("Forbidden")
              /\ "serve" \notin Range(steps)
        /\ info.kind = "file" =>
              steps = <<"method", "sanitize", "stat", "isdir", "ext", "log">>
        /\ info.kind = "absent" => w.status = StatusNotFound

\* GET /access.log for an existing regular file, answered 403
C8_Witness ==
    /\ Finished
    /\ LogRequested
    /\ path = AccessLog
    /\ info.kind = "file"
    /\ w.status = StatusForbidden

\* C9 as stated: a GET, without conditional or range headers, for an
\* existing regular file of the flat served root with an allowlisted
\* extension (one that can be opened and is then as os.Stat found it, the
\* log append not failing) is answered 200 with
\* the file as the body, and one entry with status 200 and the bytes
\* written is appended.
C9_AllowedFileServed200 ==
    (/\ Finished
     /\ method = "GET"
     /\ Accepted
     /\ info.kind = "file"
     /\ ToLower(Ext(cleanPath)) \in allowedExts
     /\ opened = Met("ok", info) \/ RedirectsIndex(path)
     /\ diag = <<>>)
        => /\ w.status = StatusOK
           /\ w.body = info.size
           /\ Len(logFile) = 1
           /\ logFile[1].status = StatusOK
           /\ logFile[1].bytes = w.body

\* the status of the first call: the code of a WriteHeader, 200 for a Write
FirstStatus(cs) ==
    IF cs[1].op = "WriteHeader" THEN cs[1].arg ELSE StatusOK

\* C10 as stated: after any sequence of WriteHeader and Write calls that
\* return, the recorded status is that of the first call (200 when it is a
\* Write), the wrapped writer has been handed exactly that one status, and
\* the recorded status is the status sent to the client, while the
\* handler runs and when it has returned; before any call the recorder
\* holds the 200 an empty reply is sent with.
C10_FirstStatusWins ==
    (pc \in {"recorder", "finished"} /\ ~w.panicked) =>
        /\ calls # <<>> =>
              /\ rr.wroteHeader
              /\ rr.statusCode = FirstStatus(calls)
              /\ w.headerCalls = <<FirstStatus(calls)>>
        /\ calls = <<>> =>
              /\ rr.statusCode = StatusOK
              /\ ~rr.wroteHeader
              /\ w.headerCalls = <<>>
        /\ w.wroteHeader => w.status = rr.statusCode

\* C15: logging is best-effort.  The step that logs leaves the recorder
\* and everything sent to the client as they were, whether the append
\* succeeds or fails, and ends the request; a failed open or encode drops
\* the entry and prints one diagnostic, a successful one appends the entry.
C15_LogFailureHarmless ==
    [][pc = "returned" =>
          /\ pc' = "done"
          /\ w' = w /\ rr' = rr /\ calls' = calls
          /\ logCalls' = Append(logCalls, Entry)
          /\ \/ diag' = diag /\ logFile' = Append(logFile, Entry)
             \/ /\ Len(diag') = Len(diag) + 1
                /\ diag'[Len(diag')] \in LogFailures \ {"none"}
                /\ logFile' = logFile]_vars

\* a file sent with 200 and its bytes, the entry lost to a failed open
C15_Witness ==
    /\ Finished
    /\ diag = <<"Failed to open log file">>
    /\ logFile = <<>>
    /\ w.status = StatusOK
    /\ w.body = MaxSize
    /\ rr.bytesWritten = w.body

\* the reply to a request sanitizePath rejected, as made through the
\* recorder: it depends on nothing but the request being a HEAD
ForbiddenReply(isHead) ==
    [calls |-> << [op |-> "WriteHeader", arg |-> StatusForbidden],
                  [op |-> "Write", arg |-> ErrorBody("Forbidden")] >>,
     w |-> [wroteHeader |-> TRUE, status |-> StatusForbidden,
            body |-> IF isHead THEN 0 ELSE ErrorBody("Forbidden"),
            head |-> isHead, headerCalls |-> <<StatusForbidden>>,
            informational |-> <<>>, panicked |-> FALSE]]

\* C16: whichever rule of sanitizePath rejected a GET or HEAD request,
\* the client sees the same reply, status 403 and the body "Forbidden":
\* the reply is a function of the method alone, not of the reason.
C16_RejectionUniform ==
    (Rejected /\ pc \in {"returned", "done"}) =>
        /\ calls = ForbiddenReply(method = "HEAD").calls
        /\ w = ForbiddenReply(method = "HEAD").w
        /\ rr.statusCode = StatusForbidden

\* a traversal rejection answered like the others
C16_Witness ==
    /\ Finished
    /\ method = "GET"
    /\ err = "directory traversal detected"
    /\ w.status = StatusForbidden
    /\ w.body = ErrorBody("Forbidden")

\* the position of a step among the steps taken, 0 when it was not taken
Position(step) ==
    IF step \in Range(steps)
    THEN CHOOSE i \in DOMAIN steps : steps[i] = step
    ELSE 0

\* C17 as stated: the extension check is performed before the filesystem
\* stat: once os.Stat has run, the extension check has run before it.
C17_ExtensionBeforeStat ==
    Position("stat") > 0 =>
        /\ Position("ext") > 0
        /\ Position("ext") < Position("stat")

\* the steps of handleRequest in the order of the code
CodeOrder == <<"method", "sanitize", "stat", "isdir", "ext", "serve">>

\* C17 as amended: the steps of a request occur strictly in the order
\* method check, path validation, stat, directory test, extension check,
\* serving, then the log entry, then done; a request leaves the order only
\* to be logged, and the stat is performed before the extension check.
C17_StatBeforeExtension ==
    /\ \E k \in 0..Len(CodeOrder) :
          \/ steps = SubSeq(CodeOrder, 1, k) /\ ~Finished
          \/ steps = Append(SubSeq(CodeOrder, 1, k), "log") /\ Finished /\ k > 0
    /\ Position("ext") > 0 =>
          /\ Position("stat") > 0
          /\ Position("stat") < Position("ext")

\* a request that went through every step
C17_Witness ==
    /\ Finished
    /\ steps = Append(CodeOrder, "log")

\* C20: every candidate sanitizePath accepts resolves to a direct child
\* of the served root, the root joined with the one element that is the
\* candidate without its single leading slash; never to the root itself.
C20_AcceptedIsDirectChild ==
    Accepted =>
        LET rest == IF path # <<>> /\ path[1] = Slash THEN Tail(path) ELSE path
            rootElems == SplitPath(Abs(wwwRoot))
        IN /\ rest # <<>>
           /\ \A i \in 1..Len(rest) : rest[i] # Slash
           /\ SplitPath(Abs(cleanPath)) = Append(rootElems, rest)
           /\ Abs(cleanPath) # Abs(wwwRoot)
           /\ cleanPath # Clean(wwwRoot)

\* a dot file accepted under the root with a trailing separator
C20_Witness ==
    /\ Accepted
    /\ wwwRoot = <<Slash, "w", Slash>>
    /\ path = <<Slash, Dot, "m">>
    /\ cleanPath = <<Slash, "w", Slash, Dot, "m">>

\* the names a sweep at the instant t is to remove from a directory: the
\* regular files whose name parses as a bucket of an hour strictly before
\* t less the retention window
Due(dir, t, loc) ==
    {n \in DOMAIN dir :
        /\ ~dir[n].isDir
        /\ \E parsed \in {ParseInLocation(n, loc)} :
              parsed.ok /\ parsed.t < t - retentionHours * TicksPerHour}

\* C11: when a sweep has visited every entry, the directory is the one it read less
\* exactly the regular files whose name parses as a bucket strictly before
\* now - R (those whose removal failed excepted); a bucket at the cutoff
\* or newer, a name that does not parse or lacks the suffix, and a
\* subdirectory are all still there, unchanged.  A sweep that could not
\* read the directory removes nothing.
C11_SweepRemovesExactlyExpired ==
    (sweep.pc = "failed" \/ (sweep.pc = "loop" /\ sweep.entries = <<>>)) =>
        /\ DOMAIN logDir =
              IF sweep.readOk
              THEN DOMAIN sweep.before
                     \ (Due(sweep.before, sweep.at, location) \ sweep.failed)
              ELSE DOMAIN sweep.before
        /\ \A n \in DOMAIN logDir : logDir[n] = sweep.before[n]
        /\ sweep.failed \subseteq Due(sweep.before, sweep.at, location)

\* the startup sweep over all the entries: the three old buckets are gone,
\* the bucket at the cutoff and the six others are left
C11_Witness ==
    /\ sweep.pc = "loop"
    /\ sweep.entries = <<>>
    /\ sweep.runs = 0
    /\ sweep.at = StartNow
    /\ sweep.before = DirOf(StartEntries)
    /\ sweep.failed = {}
    /\ BucketName(2025, 3, 8, 21) \notin DOMAIN logDir
    /\ BucketName(2006, 3, 20, 10) \notin DOMAIN logDir
    /\ BucketName(2025, 3, 8, 22) \in DOMAIN logDir
    /\ BucketName(2025, 2, 30, 10) \in DOMAIN logDir
    /\ BucketName(2025, 3, 7, 10) \in DOMAIN logDir
    /\ Cardinality(DOMAIN logDir) = 7

\* a sweep that follows another has visited every entry; in SpecSweep no
\* file is created between the two
SecondSweepDone ==
    /\ sweep.pc = "loop"
    /\ sweep.entries = <<>>
    /\ sweep.runs >= 1

\* C12 as stated: a sweep run after another, with no new file created in
\* between, removes nothing and leaves the directory as the first left it
\* (stated here for a first sweep that read the directory and failed in no
\* removal).
C12_SecondSweepRemovesNothing ==
    (SecondSweepDone /\ sweep.prevClean) => logDir = sweep.before

\* C12 as amended: a sweep run after a sweep that read the directory and
\* failed in no removal, with no new file created in between, removes
\* only regular files that are buckets which were not yet before the
\* cutoff of the first sweep and are before its own; when its cutoff is
\* that of the first it removes nothing: the directory is as the first
\* left it and holds no bucket before the cutoff.  What it leaves is
\* unchanged.
C12_SecondSweepRemovesOnlyNewlyOld ==
    (SecondSweepDone /\ sweep.prevClean) =>
        /\ DOMAIN logDir \subseteq DOMAIN sweep.before
        /\ \A n \in DOMAIN logDir : logDir[n] = sweep.before[n]
        /\ \A n \in DOMAIN sweep.before \ DOMAIN logDir :
              /\ ~sweep.before[n].isDir
              /\ \E parsed \in {ParseInLocation(n, location)} :
                    /\ parsed.ok
                    /\ ~Before(parsed.t, Cutoff(sweep.prevAt))
                    /\ Before(parsed.t, Cutoff(sweep.at))
        /\ sweep.at = sweep.prevAt =>
              /\ logDir = sweep.before
              /\ Due(sweep.before, sweep.at, location) = {}

\* a second sweep after a first that removed the three old buckets
C12_Witness ==
    /\ sweep.pc = "loop"
    /\ sweep.entries = <<>>
    /\ sweep.runs = 1
    /\ sweep.prevClean
    /\ sweep.readOk
    /\ sweep.at = sweep.prevAt
    /\ Cardinality(removed) = 3
    /\ logDir = sweep.before
    /\ Cardinality(DOMAIN logDir) = 7

\* the regular files of the logs directory
Files == {n \in DOMAIN logDir : ~logDir[n].isDir}

\* the offsets in the data at which the line stands whole
Occurs(data, line) ==
    {i \in 0..(Len(data) - Len(line)) :
        SubSeq(data, i + 1, i + Len(line)) = line}

\* C13 as stated: after any interleaving of the logging of requests none
\* of which failed to open or to encode, every byte of a bucket file
\* belongs to a line that stands there whole, from its first byte to its
\* newline, none split by or mixed with another, and the line of every
\* request whose Encode has returned is there exactly once, in the file
\* the request named, and in no other file.  Only the line a request is
\* still writing may stand there in part.
C13_WholeLinesNoneLost ==
    (\A r \in Requests : task[r].result # "dropped") =>
        /\ \A n \in Files :
              LET data == logDir[n].data
              IN \A i \in DOMAIN data :
                    /\ \/ data[i].k = 1
                       \/ /\ i > 1
                          /\ data[i - 1] =
                                [req |-> data[i].req, k |-> data[i].k - 1]
                    /\ \/ data[i].k = LineLen
                       \/ /\ i < Len(data)
                          /\ data[i + 1] =
                                [req |-> data[i].req, k |-> data[i].k + 1]
                       \/ /\ data[i].req \in Requests
                          /\ task[data[i].req].pc = "open"
        /\ \A r \in Requests : \A n \in Files :
              Cardinality(Occurs(logDir[n].data, Line(r))) =
                 IF task[r].result = "appended" /\ n = task[r].file
                 THEN 1 ELSE 0

\* C14: the sweeper never removes the bucket file of the hour the clock
\* is in, no file is removed while a logRequest holds it open, and the
\* line of every request whose Encode returned without error is in its
\* file: none is lost to a sweep.  The clock advances by at most MaxTicks
\* while a request logs, far less than the retention window.
C14_SweepSparesCurrentBucket ==
    /\ \A x \in removed : x.name # currentLogFile(x.at, location)
    /\ \A r \in Requests :
          /\ ~task[r].orphan
          /\ task[r].pc = "open" => task[r].file \in DOMAIN logDir
          /\ task[r].result = "appended" =>
                /\ task[r].file \in DOMAIN logDir
                /\ Contains(logDir[task[r].file].data, Line(r))

\* a periodic sweep that is removing the bucket the clock has made old
\* and has yet to visit the current one, which a request holds open
C14_Witness ==
    /\ sweep.pc = "loop"
    /\ sweep.runs >= 1
    /\ removed # {}
    /\ task[1].pc = "open"
    /\ task[1].file = currentLogFile(now, location)
    /\ sweep.entries # <<>>
    /\ Head(sweep.entries).name = task[1].file

\* C19 as stated: each line stored in a bucket file belongs to a request
\* whose timestamp lies in the civil hour of the file's name.
C19_EntryInOwnHourFile ==
    \A n \in Files : \A r \in Requests :
        Occurs(logDir[n].data, Line(r)) # {} =>
            n = currentLogFile(task[r].stamp, location)

\* C18: no request is logged before the startup sweep has returned, and
\* with the ticker firing and removals not failing for ever, the logs
\* directory is again and again free of buckets older than the retention
\* window: every regular file that is such a bucket is eventually removed.
C18_OldBucketsEventuallyRemoved ==
    /\ [](\A r \in Requests : task[r].pc \notin {"idle", "absent"} =>
                                 sweep.runs >= 1)
    /\ []<>(Due(logDir, now, location) = {})

\* the bucket that was at the cutoff when the program started, removed by
\* a later sweep once the clock had made it old, a request logged meanwhile
C18_Witness ==
    /\ \E x \in removed : x.name = BucketName(2025, 3, 8, 22) /\ x.at > StartNow
    /\ sweep.runs = 2
    /\ task[1].result = "appended"
    /\ BucketName(2025, 3, 8, 22) \notin DOMAIN logDir

=============================================================================
